---- MODULE Spec2Model ----
(***************************************************************************)
(* Verification model of the browser-side content pipeline:                *)
(*   - API.call, the resilient request wrapper of static/js/dashboard.js   *)
(*     (specification Spec);                                               *)
(*   - convertDeltaToHtml and escapeHtml, the Delta-to-HTML converter of   *)
(*     static/js/blog-detail-loader.js (specification SpecConv);           *)
(*   - the list formatter of static/js/about-loader.js (specification      *)
(*     SpecFmt);                                                           *)
(*   - processQuillContent and the content node of renderPost, of          *)
(*     static/js/blog-detail-loader.js (specification SpecRnd);            *)
(*   - two API.call invocations in flight (specification SpecCalls);       *)
(*   - AuthHelper.apiFetch of static/js/auth-helper.js (specification      *)
(*     SpecAh);                                                            *)
(*   - the Editor registry of static/js/dashboard.js (specification        *)
(*     SpecEd).                                                            *)
(* SpecLive is Spec with fairness of the call's steps, and SpecBackoff     *)
(* follows calls with larger retry budgets through their backoff.          *)
(***************************************************************************)
EXTENDS Integers, Sequences, FiniteSets, TLC

(***************************************************************************)
(* Bounds of the model.                                                    *)
(***************************************************************************)
\* largest retry budget (options.retries) a call is started with
MaxRetries == 3
\* largest number of entries of delta.ops
MaxOps == 3
\* largest length of the text of an operation
MaxTextLen == 2

\* Longest first line given to the list formatter.
MaxLineLen == 4

\* Largest number of top-level blocks of an HTML content.
MaxBlocks == 2
\* Rows and columns of the largest table of an HTML content.
MaxRows == 2
MaxCols == 2
\* Largest number of operations of a Delta given to the rendering.
MaxRenderOps == 2
\* Largest retry budget of the calls that are followed through their backoff.
MaxBackoffRetries == 6

Min(a, b) == IF a <= b THEN a ELSE b

RECURSIVE Pow2(_)
Pow2(n) == IF n <= 0 THEN 1 ELSE 2 * Pow2(n - 1)

(***************************************************************************)
(*                         PART 1: API.call                                *)
(***************************************************************************)
VARIABLES
    retries,        \* options.retries, the retry budget of the call
    net,            \* the network layer: net[r] is how request number r ends
    i,              \* the loop index of the for statement
    attemptCount,   \* let attemptCount
    tokenRefreshed, \* let tokenRefreshed
    lastError,      \* let lastError
    pc,             \* where the call is suspended
    result,         \* the value returned, or the value thrown
    requests,       \* number of fetch() calls issued so far
    refreshLog,     \* the Auth.refreshAccessToken() calls made, in order
    delays,         \* the backoff delays waited, in order (ms)
    token,          \* localStorage access_token: "none", "old" or "new"
    entry,          \* how call was entered: "json" or "postFormData"
    headersAuth,    \* Authorization of options.headers, "absent" without one
    sent            \* per request: the token sent and the token then stored

tokVars == <<token, entry, headersAuth, sent>>

apiVars == <<retries, net, i, attemptCount, tokenRefreshed, lastError, pc,
             result, requests, refreshLog, delays, tokVars>>

VARIABLES
    delta,      \* the argument of convertDeltaToHtml
    index,      \* the forEach index (1-based here)
    html,       \* let html, as a sequence of tokens
    inList,     \* let inList
    listType,   \* let listType
    frags,      \* what each processed operation appended to html
    cpc         \* where the conversion is

convVars == <<delta, index, html, inList, listType, frags, cpc>>

VARIABLES
    section,    \* which block is formatted: "goals" or "achievements"
    content,    \* aboutData.goals_content / achievements_content
    lines,      \* const lines
    isList,     \* const isList
    lineIndex,  \* position of lines.forEach (1-based here)
    formatted,  \* let formattedGoals / formattedAchievements, as its entries
    fpc         \* where the formatting is

fmtVars == <<section, content, lines, isList, lineIndex, formatted, fpc>>

VARIABLES
    postContent, \* post.content
    katex,       \* the katex library: "undefined", or how its render ends
    quillHtml,   \* let html of processQuillContent, as the tree built from it
    failed,      \* the steps of the pipeline that have failed
    contentEl,   \* what the content node of the page holds
    pass,        \* 1, or 2 when the result of a pass is rendered again
    firstHtml,   \* what the first pass returned
    rpc          \* where the rendering is

rndVars == <<postContent, katex, quillHtml, failed, contentEl, pass, firstHtml,
             rpc>>

VARIABLES
    calls,      \* the locals of each of two API.call invocations in flight
    stored      \* localStorage access_token, which both invocations read

callVars == <<calls, stored>>

VARIABLES
    ahAccess,       \* localStorage access_token
    ahRefresh,      \* localStorage refresh_token
    ahUsername,     \* localStorage username
    ahHeader,       \* options.headers['Authorization']
    ahToken,        \* const token of apiFetch
    ahSent,         \* the Authorization of each fetch(url, options), in order
    ahRefreshCalls, \* number of refreshAccessToken() calls made
    ahLocation,     \* window.location.href
    ahResult,       \* what apiFetch resolved to
    ahpc            \* where apiFetch is suspended

ahVars == <<ahAccess, ahRefresh, ahUsername, ahHeader, ahToken, ahSent,
            ahRefreshCalls, ahLocation, ahResult, ahpc>>

VARIABLES
    quillInstances,    \* const quillInstances = new Map()
    containers,        \* the ids document.getElementById finds
    modulesRegistered, \* registerModules() has run
    edCall,            \* the last call of the Editor interface and its result
    edBefore           \* quillInstances as that call found it

edVars == <<quillInstances, containers, modulesRegistered, edCall, edBefore>>

moreVars == <<callVars, ahVars, edVars>>

vars == <<apiVars, convVars, fmtVars, rndVars, moreVars>>

notApiVars == <<convVars, fmtVars, rndVars, moreVars>>

notConvVars == <<apiVars, fmtVars, rndVars, moreVars>>

notFmtVars == <<apiVars, convVars, rndVars, moreVars>>

notRndVars == <<apiVars, convVars, fmtVars, moreVars>>

notCallVars == <<apiVars, convVars, fmtVars, rndVars, ahVars, edVars>>

notAhVars == <<apiVars, convVars, fmtVars, rndVars, callVars, edVars>>

notEdVars == <<apiVars, convVars, fmtVars, rndVars, callVars, ahVars>>

\* The two invocations, the identifiers of the editors of the dashboard.
CallIds == {1, 2}
EditorIds == {"content-editor", "excerpt-editor"}

\* What apiFetch resolved to, or that it rejected; request is the number of
\* the request a response answers.
AhPending == [kind |-> "pending", status |-> 0, request |-> 0]
AhNull == [kind |-> "null", status |-> 0, request |-> 0]
AhThrew == [kind |-> "threw", status |-> 0, request |-> 0]
AhResponse(status, request) ==
    [kind |-> "response", status |-> status, request |-> request]

\* No instance registered under an id: quillInstances.get(id) is undefined.
NoInstance == [html |-> "", ops |-> <<>>]

NoCall == [op |-> "none", id |-> "", result |-> "none"]

CallsIdle ==
    /\ calls = [c \in CallIds |-> [pc |-> "idle", retries |-> 0, i |-> 0,
                                   attemptCount |-> 0, tokenRefreshed |-> FALSE,
                                   lastError |-> "null", fetches |-> 0,
                                   renewals |-> 0]]
    /\ stored = "none"

AhIdle ==
    /\ ahAccess = "none"
    /\ ahRefresh = "none"
    /\ ahUsername = "none"
    /\ ahHeader = <<>>
    /\ ahToken = "none"
    /\ ahSent = <<>>
    /\ ahRefreshCalls = 0
    /\ ahLocation = "page"
    /\ ahResult = AhPending
    /\ ahpc = "idle"

EdIdle ==
    /\ quillInstances = [id \in EditorIds |-> NoInstance]
    /\ containers = {}
    /\ modulesRegistered = FALSE
    /\ edCall = NoCall
    /\ edBefore = [id \in EditorIds |-> NoInstance]

MoreIdle == CallsIdle /\ AhIdle /\ EdIdle

\* HTTP statuses the network layer answers with
Statuses == {200, 401, 500}

\* response.ok
Ok(status) == status >= 200 /\ status <= 299

\* How one fetch() ends: the abort of the timeout, a network failure, or a
\* response, whose body may fail to decode (response.json() rejecting).
Outcomes ==
    {[kind |-> "timeout", status |-> 0, decodes |-> FALSE],
     [kind |-> "neterr", status |-> 0, decodes |-> FALSE]}
    \cup {[kind |-> "response", status |-> s, decodes |-> d] :
              s \in Statuses, d \in BOOLEAN}

\* The value of lastError before any error was caught (null).
Null == [name |-> "null", message |-> "", status |-> 0, data |-> 0, at |-> 0]

\* The error objects the call can catch. status 0 stands for an error object
\* without a status property; data is the decoded body, named by the number
\* of the request it answers; at is the request during which it was created.
AbortError(r) ==
    [name |-> "AbortError", message |-> "aborted", status |-> 0, data |-> 0, at |-> r]
TypeError(r) ==
    [name |-> "TypeError", message |-> "Failed to fetch", status |-> 0, data |-> 0, at |-> r]
SyntaxError(r) ==
    [name |-> "SyntaxError", message |-> "Unexpected token", status |-> 0, data |-> 0, at |-> r]
SessionError(r) ==
    [name |-> "Error", message |-> "Session expired. Please login again.",
     status |-> 0, data |-> 0, at |-> r]
HttpError(s, r) ==
    [name |-> "Error", message |-> "HTTP", status |-> s, data |-> r, at |-> r]

\* The decoded body of the response to request r.
Body(r) == [name |-> "body", message |-> "", status |-> 0, data |-> r, at |-> r]

BaseDelay == 1000
DelayCap == 10000

\* The delay without its ceiling.
DelayUncapped(k) == BaseDelay * Pow2(k)

\* Math.min(1000 * Math.pow(2, i), 10000)
Delay(k) == Min(BaseDelay * Pow2(k), DelayCap)

\* Authorization of the headers postFormData passes to call:
\* {...Auth.authHeaders(), ...headers} with the token of that moment
PostFormDataAuth(tok) == IF tok # "none" THEN tok ELSE "absent"

\* Authorization of the request headers built for one attempt: the stored
\* token, then Object.assign(defaultHeaders, headers) on top of it
RequestAuth == IF headersAuth # "absent" THEN headersAuth ELSE token

ApiInit ==
    /\ token \in {"none", "old"}
    /\ entry \in {"json", "postFormData"}
    /\ headersAuth = IF entry = "postFormData" THEN PostFormDataAuth(token) ELSE "absent"
    /\ sent = <<>>
    /\ retries \in 0..MaxRetries
    /\ net \in [1..(retries + 1) -> Outcomes]
    /\ i = 0
    /\ attemptCount = 0
    /\ tokenRefreshed = FALSE
    /\ lastError = Null
    /\ pc = "loop"
    /\ result = Null
    /\ requests = 0
    /\ refreshLog = <<>>
    /\ delays = <<>>

\* Catch with every error but a timeout terminal (no retry of a network failure).
CatchThrowAll(error) ==
    /\ lastError' = error
    /\ IF error.name = "AbortError" /\ i < retries - 1
       THEN /\ pc' = "backoff"
            /\ delays' = Append(delays, Delay(i))
            /\ UNCHANGED <<i, result>>
       ELSE /\ pc' = "thrown"
            /\ result' = error
            /\ UNCHANGED <<i, delays>>

\* Catch without the terminal case for errors that carry an HTTP status.
CatchRetryHttp(error) ==
    /\ lastError' = error
    /\ IF i < retries - 1
       THEN /\ pc' = "backoff"
            /\ delays' = Append(delays, Delay(i))
            /\ UNCHANGED <<i, result>>
       ELSE /\ pc' = "loop"
            /\ i' = i + 1
            /\ UNCHANGED <<result, delays>>

\* Catch that waits the backoff delay after the last attempt too.
CatchAlwaysDelay(error) ==
    /\ lastError' = error
    /\ IF error.status # 0 /\ error.status # 401
       THEN /\ pc' = "thrown"
            /\ result' = error
            /\ UNCHANGED <<i, delays>>
       ELSE /\ pc' = "backoff"
            /\ delays' = Append(delays, Delay(i))
            /\ UNCHANGED <<i, result>>

\* The catch block: what the call does with a caught error.
Catch(error) ==
    /\ lastError' = error
    /\ IF error.name = "AbortError" /\ i < retries - 1
       THEN /\ pc' = "backoff"
            /\ delays' = Append(delays, Delay(i))
            /\ UNCHANGED <<i, result>>
       ELSE IF error.status # 0 /\ error.status # 401
       THEN /\ pc' = "thrown"
            /\ result' = error
            /\ UNCHANGED <<i, delays>>
       ELSE IF i < retries - 1
       THEN /\ pc' = "backoff"
            /\ delays' = Append(delays, Delay(i))
            /\ UNCHANGED <<i, result>>
       ELSE /\ pc' = "loop"
            /\ i' = i + 1
            /\ UNCHANGED <<result, delays>>

\* The loop test passes: the attempt is counted and its request issued.
Attempt ==
    /\ pc = "loop"
    /\ i < retries
    /\ attemptCount' = attemptCount + 1
    /\ requests' = requests + 1
    /\ pc' = "fetch"
    /\ sent' = Append(sent, [auth |-> RequestAuth, store |-> token])
    /\ UNCHANGED <<retries, net, i, tokenRefreshed, lastError, result,
                   refreshLog, delays, token, entry, headersAuth, notApiVars>>

\* The loop test fails: throw lastError.
Exhausted ==
    /\ pc = "loop"
    /\ i >= retries
    /\ pc' = "thrown"
    /\ result' = lastError
    /\ UNCHANGED <<retries, net, i, attemptCount, tokenRefreshed, lastError,
                   requests, refreshLog, delays, tokVars, notApiVars>>

\* The timeout aborts the pending fetch.
FetchTimeout ==
    /\ pc = "fetch"
    /\ net[requests].kind = "timeout"
    /\ Catch(AbortError(requests))
    /\ UNCHANGED <<retries, net, attemptCount, tokenRefreshed, requests,
                   refreshLog, tokVars, notApiVars>>

\* fetch rejects with a network failure.
FetchFailed ==
    /\ pc = "fetch"
    /\ net[requests].kind = "neterr"
    /\ Catch(TypeError(requests))
    /\ UNCHANGED <<retries, net, attemptCount, tokenRefreshed, requests,
                   refreshLog, tokVars, notApiVars>>

\* A 401 while the call has not refreshed yet: start the token refresh.
Unauthorized ==
    /\ pc = "fetch"
    /\ net[requests].kind = "response"
    /\ net[requests].status = 401 /\ ~tokenRefreshed
    /\ pc' = "refresh"
    /\ UNCHANGED <<retries, net, i, attemptCount, tokenRefreshed, lastError,
                   result, requests, refreshLog, delays, tokVars, notApiVars>>

\* Any other response: decode the body, throw on !response.ok, else return.
Respond ==
    /\ pc = "fetch"
    /\ net[requests].kind = "response"
    /\ ~(net[requests].status = 401 /\ ~tokenRefreshed)
    /\ IF ~net[requests].decodes
       THEN Catch(SyntaxError(requests))
       ELSE IF ~Ok(net[requests].status)
       THEN Catch(HttpError(net[requests].status, requests))
       ELSE /\ pc' = "returned"
            /\ result' = Body(requests)
            /\ UNCHANGED <<i, lastError, delays>>
    /\ UNCHANGED <<retries, net, attemptCount, tokenRefreshed, requests,
                   refreshLog, tokVars, notApiVars>>

\* Auth.refreshAccessToken() resolves true: continue with the next iteration.
RefreshOk ==
    /\ pc = "refresh"
    /\ refreshLog' = Append(refreshLog, [ok |-> TRUE, at |-> requests])
    /\ token' = "new"
    /\ tokenRefreshed' = TRUE
    /\ i' = i + 1
    /\ pc' = "loop"
    /\ UNCHANGED <<retries, net, attemptCount, lastError, result, requests,
                   delays, entry, headersAuth, sent, notApiVars>>

\* Auth.refreshAccessToken() resolves false: throw the session error,
\* which the catch block of the same iteration catches.
RefreshFailed ==
    /\ pc = "refresh"
    /\ refreshLog' = Append(refreshLog, [ok |-> FALSE, at |-> requests])
    /\ token' = "none"
    /\ Catch(SessionError(requests))
    /\ UNCHANGED <<retries, net, attemptCount, tokenRefreshed, requests,
                   entry, headersAuth, sent, notApiVars>>

\* A backoff timer that never fires.
BackoffNeverFires ==
    /\ pc = "backoff"
    /\ UNCHANGED vars

\* The backoff timer fires: the next iteration begins.
BackoffDone ==
    /\ pc = "backoff"
    /\ i' = i + 1
    /\ pc' = "loop"
    /\ UNCHANGED <<retries, net, attemptCount, tokenRefreshed, lastError,
                   result, requests, refreshLog, delays, tokVars, notApiVars>>

ConvIdle ==
    /\ delta = [kind |-> "null", opsKind |-> "undefined", ops |-> <<>>]
    /\ index = 0
    /\ html = <<>>
    /\ inList = FALSE
    /\ listType = ""
    /\ frags = <<>>
    /\ cpc = "idle"

FmtIdle ==
    /\ section = "goals"
    /\ content = <<>>
    /\ lines = <<>>
    /\ isList = FALSE
    /\ lineIndex = 0
    /\ formatted = <<>>
    /\ fpc = "idle"

RndIdle ==
    /\ postContent = [kind |-> "empty", dom |-> <<>>,
                      data |-> [kind |-> "null", opsKind |-> "undefined",
                                ops |-> <<>>]]
    /\ katex = "undefined"
    /\ quillHtml = <<>>
    /\ failed = {}
    /\ contentEl = [block |-> "untouched", dom |-> <<>>, raw |-> postContent]
    /\ pass = 1
    /\ firstHtml = <<>>
    /\ rpc = "idle"

Init == ApiInit /\ ConvIdle /\ FmtIdle /\ RndIdle /\ MoreIdle

Next ==
    \/ Attempt
    \/ Exhausted
    \/ FetchTimeout
    \/ FetchFailed
    \/ Unauthorized
    \/ Respond
    \/ RefreshOk
    \/ RefreshFailed
    \/ BackoffDone

Spec == Init /\ [][Next]_vars

\* The same calls under the scheduling of the page: a pending fetch is
\* answered or aborted by its timeout, a refresh completes, a timer fires.
SpecLive == Init /\ [][Next]_vars /\ WF_vars(Next)

\* Calls with a larger budget, whose requests time out, fail or are answered
\* 401: the calls that wait one backoff delay after the other.
BackoffOutcomes ==
    {o \in Outcomes : o.kind # "response" \/ (o.status = 401 /\ o.decodes)}

BackoffInit ==
    /\ token = "old"
    /\ entry = "json"
    /\ headersAuth = "absent"
    /\ sent = <<>>
    /\ retries \in 0..MaxBackoffRetries
    /\ net \in [1..(retries + 1) -> BackoffOutcomes]
    /\ i = 0
    /\ attemptCount = 0
    /\ tokenRefreshed = FALSE
    /\ lastError = Null
    /\ pc = "loop"
    /\ result = Null
    /\ requests = 0
    /\ refreshLog = <<>>
    /\ delays = <<>>

InitBackoff == BackoffInit /\ ConvIdle /\ FmtIdle /\ RndIdle /\ MoreIdle

SpecBackoff == InitBackoff /\ [][Next]_vars

(***************************************************************************)
(*                    PART 2: convertDeltaToHtml                           *)
(*                                                                         *)
(* A JavaScript string is a sequence of tokens: every character that comes *)
(* from data (operation text, link, image URL, alt, formula) is one Ch     *)
(* token, and every literal piece of markup of a template is one Open,     *)
(* Close or Lit token.  Entities are spelled character by character.       *)
(***************************************************************************)
Ch(c) == [t |-> "char", name |-> "", level |-> 0, c |-> c]
Open(name) == [t |-> "open", name |-> name, level |-> 0, c |-> ""]
Close(name) == [t |-> "close", name |-> name, level |-> 0, c |-> ""]
\* `<h${level} class="content-header">` and `</h${level}>`
HOpen(level) == [t |-> "open", name |-> "h", level |-> level, c |-> ""]
HClose(level) == [t |-> "close", name |-> "h", level |-> level, c |-> ""]
\* a literal piece of markup that is not a whole tag
Lit(piece) == [t |-> "lit", name |-> piece, level |-> 0, c |-> ""]

\* the characters of a literal, as tokens
RECURSIVE Chars(_)
Chars(str) == IF str = <<>> THEN <<>> ELSE <<Ch(Head(str))>> \o Chars(Tail(str))

\* String.prototype.replace(/c/g, rep) on a sequence of characters
RECURSIVE ReplaceAll(_, _, _)
ReplaceAll(str, c, rep) ==
    IF str = <<>> THEN <<>>
    ELSE (IF Head(str) = c THEN rep ELSE <<Head(str)>>)
             \o ReplaceAll(Tail(str), c, rep)

\* escapeHtml without the replacement of the single quote
escapeHtmlNoApos(str) ==
    ReplaceAll(ReplaceAll(ReplaceAll(ReplaceAll(str,
        "&", <<"&", "a", "m", "p", ";">>),
        "<", <<"&", "l", "t", ";">>),
        ">", <<"&", "g", "t", ";">>),
        "\"", <<"&", "q", "u", "o", "t", ";">>)

\* escapeHtml: the five replacements, in the order of the source
escapeHtml(str) ==
    ReplaceAll(ReplaceAll(ReplaceAll(ReplaceAll(ReplaceAll(str,
        "&", <<"&", "a", "m", "p", ";">>),
        "<", <<"&", "l", "t", ";">>),
        ">", <<"&", "g", "t", ";">>),
        "\"", <<"&", "q", "u", "o", "t", ";">>),
        "'", <<"&", "#", "0", "3", "9", ";">>)

\* op.attributes.  header 0, list "" and link <<>> stand for the absent (or
\* falsy) attribute; present = FALSE for an operation without attributes.
NoAttributes ==
    [present |-> FALSE, bold |-> FALSE, italic |-> FALSE, underline |-> FALSE,
     strike |-> FALSE, header |-> 0, blockquote |-> FALSE, codeBlock |-> FALSE,
     code |-> FALSE, list |-> "", link |-> <<>>, alt |-> <<>>]

\* An entry of delta.ops that is an object; insertType is typeof op.insert.
TextOp(text, attributes) ==
    [kind |-> "op", insertType |-> "string", text |-> text, image |-> <<>>,
     formula |-> <<>>, attributes |-> attributes]
ImageOp(url, attributes) ==
    [kind |-> "op", insertType |-> "object", text |-> <<>>, image |-> url,
     formula |-> <<>>, attributes |-> attributes]
FormulaOp(expr) ==
    [kind |-> "op", insertType |-> "object", text |-> <<>>, image |-> <<>>,
     formula |-> expr, attributes |-> NoAttributes]
NumberOp ==
    [kind |-> "op", insertType |-> "number", text |-> <<>>, image |-> <<>>,
     formula |-> <<>>, attributes |-> NoAttributes]
\* A null entry of delta.ops, and the undefined read before the first and
\* after the last entry.
NullEntry ==
    [kind |-> "null", insertType |-> "undefined", text |-> <<>>, image |-> <<>>,
     formula |-> <<>>, attributes |-> NoAttributes]
Undefined ==
    [kind |-> "undefined", insertType |-> "undefined", text |-> <<>>,
     image |-> <<>>, formula |-> <<>>, attributes |-> NoAttributes]

\* delta.ops[k] for any k (0-based index k - 1 in the source)
At(ops, k) == IF k >= 1 /\ k <= Len(ops) THEN ops[k] ELSE Undefined

\* `e && e.attributes && e.attributes.X` reads X of this record
AttrsOf(e) ==
    IF e.kind = "op" /\ e.attributes.present THEN e.attributes ELSE NoAttributes

\* The state of one forEach callback: the two local strings and the two
\* variables of the enclosing function the callback assigns.
Wrap(st, open, close) ==
    [st EXCEPT !.tags = st.tags \o open, !.closingTags = close \o st.closingTags]

Bold(st, a) == IF a.bold THEN Wrap(st, <<Open("strong")>>, <<Close("strong")>>) ELSE st
Italic(st, a) == IF a.italic THEN Wrap(st, <<Open("em")>>, <<Close("em")>>) ELSE st
Underline(st, a) == IF a.underline THEN Wrap(st, <<Open("u")>>, <<Close("u")>>) ELSE st
Strike(st, a) == IF a.strike THEN Wrap(st, <<Open("s")>>, <<Close("s")>>) ELSE st

Header(st, a, prevOp) ==
    IF a.header # 0
    THEN LET level == Min(a.header, 6)
             prevHadHeader == AttrsOf(prevOp).header # 0
         IN  IF ~prevHadHeader
             THEN Wrap(st, <<HOpen(level)>>, <<HClose(level)>>)
             ELSE st
    ELSE st

Blockquote(st, a) ==
    IF a.blockquote
    THEN Wrap(st, <<Open("blockquote")>>, <<Close("blockquote")>>)
    ELSE st

CodeBlock(st, a, prevOp, nextOp) ==
    IF a.codeBlock
    THEN LET prevIsCodeBlock == AttrsOf(prevOp).codeBlock
             nextIsCodeBlock == AttrsOf(nextOp).codeBlock
             s1 == IF ~prevIsCodeBlock
                   THEN [st EXCEPT !.tags = st.tags \o <<Open("pre"), Open("code")>>]
                   ELSE st
         IN  IF ~nextIsCodeBlock
             THEN [s1 EXCEPT !.closingTags =
                                 <<Close("code"), Close("pre")>> \o s1.closingTags]
             ELSE s1
    ELSE st

InlineCode(st, a) ==
    IF a.code THEN Wrap(st, <<Open("code")>>, <<Close("code")>>) ELSE st

List(st, a, prevOp, nextOp) ==
    IF a.list # ""
    THEN LET currentListType == a.list
             prevListType == AttrsOf(prevOp).list
             listTag == IF currentListType = "ordered" THEN "ol" ELSE "ul"
             s1 == IF prevListType = ""
                   THEN [st EXCEPT !.tags = st.tags \o <<Open(listTag)>>,
                                   !.inList = TRUE,
                                   !.listType = listTag]
                   ELSE st
             s2 == Wrap(s1, <<Open("li")>>, <<Close("li")>>)
             nextListType == AttrsOf(nextOp).list
         IN  IF nextListType = "" /\ s2.inList
             THEN [s2 EXCEPT !.closingTags = <<Close(s2.listType)>> \o s2.closingTags,
                             !.inList = FALSE]
             ELSE s2
    ELSE st

Link(st, a) ==
    IF a.link # <<>>
    THEN Wrap(st,
              <<Lit("<a href=\"")>> \o Chars(escapeHtml(a.link))
                  \o <<Lit("\" target=\"_blank\" rel=\"noopener noreferrer\">")>>,
              <<Close("a")>>)
    ELSE st

\* The branch of the callback for typeof op.insert === 'string'.
TextBranch(ops, k, inL, lt) ==
    LET op == ops[k]
        a == op.attributes
        prevOp == At(ops, k - 1)
        nextOp == At(ops, k + 1)
        text == Chars(escapeHtml(op.text))
        s0 == [tags |-> <<>>, closingTags |-> <<>>, inList |-> inL, listType |-> lt]
        s1 == IF a.present
              THEN Link(List(InlineCode(CodeBlock(Blockquote(Header(
                       Strike(Underline(Italic(Bold(s0, a), a), a), a),
                       a, prevOp), a), a, prevOp, nextOp), a), a, prevOp, nextOp), a)
              ELSE s0
    IN  [frag |-> s1.tags \o text \o s1.closingTags,
         inList |-> s1.inList, listType |-> s1.listType]

\* The branch for an embed: op.insert is an object.
EmbedBranch(ops, k, inL, lt) ==
    LET op == ops[k]
        frag == IF op.image # <<>>
                THEN <<Lit("<img src=\"")>> \o Chars(escapeHtml(op.image))
                         \o <<Lit("\" alt=\"")>> \o Chars(op.attributes.alt)
                         \o <<Lit("\" class=\"content-image\">")>>
                ELSE IF op.formula # <<>>
                THEN <<Lit("<span class=\"math-formula\">")>>
                         \o Chars(escapeHtml(op.formula)) \o <<Close("span")>>
                ELSE <<>>
    IN  [frag |-> frag, inList |-> inL, listType |-> lt]

\* One call of the forEach callback on an entry that is an object.
ProcessOp(ops, k, inL, lt) ==
    IF ops[k].insertType = "string" THEN TextBranch(ops, k, inL, lt)
    ELSE IF ops[k].insertType = "object" THEN EmbedBranch(ops, k, inL, lt)
    ELSE [frag |-> <<>>, inList |-> inL, listType |-> lt]

\* if (!delta || !delta.ops) return ''
ConvEmpty ==
    /\ cpc = "start"
    /\ delta.kind = "null" \/ delta.opsKind \in {"undefined", "emptystring"}
    /\ cpc' = "done"
    /\ UNCHANGED <<delta, index, html, inList, listType, frags, notConvVars>>

\* delta.ops is truthy but has no forEach: the call throws a TypeError
ConvNotArray ==
    /\ cpc = "start"
    /\ delta.kind = "object" /\ delta.opsKind \in {"string", "number"}
    /\ cpc' = "threw"
    /\ UNCHANGED <<delta, index, html, inList, listType, frags, notConvVars>>

\* delta.ops.forEach begins
ConvBegin ==
    /\ cpc = "start"
    /\ delta.kind = "object" /\ delta.opsKind = "array"
    /\ cpc' = "loop"
    /\ index' = 1
    /\ UNCHANGED <<delta, html, inList, listType, frags, notConvVars>>

\* the callback on a null entry: reading op.insert throws a TypeError
ConvNullEntry ==
    /\ cpc = "loop"
    /\ index <= Len(delta.ops)
    /\ delta.ops[index].kind = "null"
    /\ cpc' = "threw"
    /\ UNCHANGED <<delta, index, html, inList, listType, frags, notConvVars>>

\* the callback on an operation
ConvStep ==
    /\ cpc = "loop"
    /\ index <= Len(delta.ops)
    /\ delta.ops[index].kind = "op"
    /\ LET r == ProcessOp(delta.ops, index, inList, listType)
       IN  /\ html' = html \o r.frag
           /\ frags' = Append(frags, r.frag)
           /\ inList' = r.inList
           /\ listType' = r.listType
    /\ index' = index + 1
    /\ UNCHANGED <<delta, cpc, notConvVars>>

\* forEach is over: return html
ConvReturn ==
    /\ cpc = "loop"
    /\ index > Len(delta.ops)
    /\ cpc' = "done"
    /\ UNCHANGED <<delta, index, html, inList, listType, frags, notConvVars>>

ConvNext ==
    \/ ConvEmpty
    \/ ConvNotArray
    \/ ConvBegin
    \/ ConvNullEntry
    \/ ConvStep
    \/ ConvReturn

(***************************************************************************)
(* The inputs of the conversion.                                           *)
(***************************************************************************)
\* the characters of operation text: a letter and the five escaped ones
TextChars == {"a", "&", "<", ">", "\"", "'"}

Texts == UNION {[1..n -> TextChars] : n \in 0..MaxTextLen}

\* the text of the operation at position k of a structural op-log
Alphabet == <<"a", "b", "c", "d", "e", "f">>
Letter(k) == Alphabet[((k - 1) % Len(Alphabet)) + 1]

Attr == [NoAttributes EXCEPT !.present = TRUE]

HeaderVals == {-1, 1, 2, 9}
ListVals == {"bullet", "ordered"}
LinkVals == {<<"u">>, <<"&", "\"">>}

\* the attribute records of the text operations of a structural op-log
AttrPool ==
    {NoAttributes,
     [Attr EXCEPT !.bold = TRUE],
     [Attr EXCEPT !.blockquote = TRUE],
     [Attr EXCEPT !.codeBlock = TRUE],
     [Attr EXCEPT !.italic = TRUE, !.underline = TRUE, !.strike = TRUE, !.code = TRUE],
     [Attr EXCEPT !.bold = TRUE, !.list = "bullet"]}
    \cup {[Attr EXCEPT !.header = h] : h \in HeaderVals}
    \cup {[Attr EXCEPT !.list = l] : l \in ListVals}

\* the entries of a structural op-log, the text still to be placed
Shapes ==
    {TextOp(<<>>, a) : a \in AttrPool}
    \cup {NullEntry, NumberOp,
          ImageOp(<<"u", "\"">>, [Attr EXCEPT !.alt = <<"\"", ">">>]),
          FormulaOp(<<"x", "<">>)}

Place(log) ==
    [k \in 1..Len(log) |->
        IF log[k].insertType = "string"
        THEN [log[k] EXCEPT !.text = <<Letter(k)>>]
        ELSE log[k]]

StructLogs == {Place(log) : log \in UNION {[1..n -> Shapes] : n \in 0..MaxOps}}

\* op-logs of text operations over every text
EscAttrs == {NoAttributes, [Attr EXCEPT !.bold = TRUE]}
               \cup {[Attr EXCEPT !.link = l] : l \in LinkVals}
EscLogs ==
    {<<TextOp(t, a)>> : t \in Texts, a \in EscAttrs}
    \cup {<<TextOp(t, NoAttributes), TextOp(u, a)>> :
              t \in {x \in Texts : Len(x) = 1}, u \in {x \in Texts : Len(x) = 1},
              a \in EscAttrs}

Deltas ==
    {[kind |-> "object", opsKind |-> "array", ops |-> log] :
         log \in StructLogs \cup EscLogs}
    \cup {[kind |-> "null", opsKind |-> "undefined", ops |-> <<>>]}
    \cup {[kind |-> "object", opsKind |-> k, ops |-> <<>>] :
              k \in {"undefined", "emptystring", "string", "number"}}

ConvInit ==
    /\ delta \in Deltas
    /\ index = 0
    /\ html = <<>>
    /\ inList = FALSE
    /\ listType = ""
    /\ frags = <<>>
    /\ cpc = "start"

ApiIdle ==
    /\ token = "none"
    /\ entry = "json"
    /\ headersAuth = "absent"
    /\ sent = <<>>
    /\ retries = 0
    /\ net = [r \in 1..1 |-> [kind |-> "timeout", status |-> 0, decodes |-> FALSE]]
    /\ i = 0
    /\ attemptCount = 0
    /\ tokenRefreshed = FALSE
    /\ lastError = Null
    /\ pc = "idle"
    /\ result = Null
    /\ requests = 0
    /\ refreshLog = <<>>
    /\ delays = <<>>

InitConv == ConvInit /\ ApiIdle /\ FmtIdle /\ RndIdle /\ MoreIdle

SpecConv == InitConv /\ [][ConvNext]_vars

(***************************************************************************)
(*              PART 3: the list formatter of about-loader.js              *)
(*                                                                         *)
(* loadAboutData formats goals_content and achievements_content the same   *)
(* way: a multi-line text whose lines look like list items becomes one     *)
(* entry per line, with the line's marker removed.  A string is a sequence *)
(* of one-character strings; the formatted HTML is kept as its entries.    *)
(***************************************************************************)
Newline == "\n"

\* The bullet character U+2022.
Bullet == "bullet"

\* White space as String.prototype.trim and the regular expression \s see it.
Whitespace == {" "}

\* The regular expression class \d.
Digits == {"0", "1", "2", "3", "4", "5", "6", "7", "8", "9"}

\* The class of the list test: \d, U+2022, "-" and "*".
ListStartClass == Digits \cup {Bullet, "-", "*"}

\* The class of the marker replacement: \d, ".", ")", U+2022, "-", "*".
MarkerClass == Digits \cup {".", ")", Bullet, "-", "*"}

RECURSIVE StripLeading(_, _)
StripLeading(str, class) ==
    IF str # <<>> /\ Head(str) \in class
    THEN StripLeading(Tail(str), class)
    ELSE str

RECURSIVE StripTrailing(_, _)
StripTrailing(str, class) ==
    IF str # <<>> /\ str[Len(str)] \in class
    THEN StripTrailing(SubSeq(str, 1, Len(str) - 1), class)
    ELSE str

\* line.trim()
Trim(str) == StripTrailing(StripLeading(str, Whitespace), Whitespace)

\* content.includes('\n')
Includes(str, c) == \E k \in 1..Len(str) : str[k] = c

\* content.split('\n')
RECURSIVE Split(_, _)
Split(str, cur) ==
    IF str = <<>> THEN <<cur>>
    ELSE IF Head(str) = Newline THEN <<cur>> \o Split(Tail(str), <<>>)
    ELSE Split(Tail(str), Append(cur, Head(str)))

\* .filter(line => line.trim())
RECURSIVE FilterNonBlank(_)
FilterNonBlank(ls) ==
    IF ls = <<>> THEN <<>>
    ELSE IF Trim(Head(ls)) # <<>>
         THEN <<Head(ls)>> \o FilterNonBlank(Tail(ls))
         ELSE FilterNonBlank(Tail(ls))

\* The list test on line.trim().
LooksLikeItem(line) ==
    LET t == Trim(line) IN t # <<>> /\ Head(t) \in ListStartClass

\* line.trim().replace(...): one character of the marker class at the
\* start, then the white space after it.
CleanLine(line) ==
    LET t == Trim(line) IN
    IF t # <<>> /\ Head(t) \in MarkerClass
    THEN StripLeading(Tail(t), Whitespace)
    ELSE t

ItemTag == IF section = "goals" THEN "li" ELSE "card"

\* No line break in the content: it is placed as it is.
FmtRaw ==
    /\ fpc = "start"
    /\ ~Includes(content, Newline)
    /\ formatted' = <<[tag |-> "raw", text |-> content, line |-> 0]>>
    /\ fpc' = "done"
    /\ UNCHANGED <<section, content, lines, isList, lineIndex, notFmtVars>>

\* The content is split into its non-blank lines and tested for a list.
FmtSplit ==
    /\ fpc = "start"
    /\ Includes(content, Newline)
    /\ LET ls == FilterNonBlank(Split(content, <<>>)) IN
        /\ lines' = ls
        /\ isList' = \E k \in 1..Len(ls) : LooksLikeItem(ls[k])
        /\ fpc' = IF isList' THEN "items" ELSE "paragraphs"
    /\ lineIndex' = 1
    /\ UNCHANGED <<section, content, formatted, notFmtVars>>

\* One call of the forEach callback of the list branch.
FmtItem ==
    /\ fpc = "items"
    /\ lineIndex <= Len(lines)
    /\ LET cleanLine == CleanLine(lines[lineIndex]) IN
        formatted' = IF cleanLine # <<>>
                     THEN Append(formatted, [tag |-> ItemTag, text |-> cleanLine,
                                             line |-> lineIndex])
                     ELSE formatted
    /\ lineIndex' = lineIndex + 1
    /\ UNCHANGED <<section, content, lines, isList, fpc, notFmtVars>>

\* The list is closed and placed.
FmtItemsDone ==
    /\ fpc = "items"
    /\ lineIndex > Len(lines)
    /\ fpc' = "done"
    /\ UNCHANGED <<section, content, lines, isList, lineIndex, formatted,
                   notFmtVars>>

\* No line looks like an item: one paragraph per line.
FmtParagraphs ==
    /\ fpc = "paragraphs"
    /\ formatted' = [k \in 1..Len(lines) |->
                        [tag |-> "p", text |-> Trim(lines[k]), line |-> k]]
    /\ fpc' = "done"
    /\ UNCHANGED <<section, content, lines, isList, lineIndex, notFmtVars>>

FmtNext ==
    \/ FmtRaw
    \/ FmtSplit
    \/ FmtItem
    \/ FmtItemsDone
    \/ FmtParagraphs

(***************************************************************************)
(* The inputs of the formatter: a first line of up to MaxLineLen           *)
(* characters, alone or followed by a second line.                         *)
(***************************************************************************)
LineChars == {"1", ".", ")", "-", Bullet, " ", "F"}

Lines == UNION {[1..n -> LineChars] : n \in 0..MaxLineLen}

SecondLines == {<<"2", ".", " ", "S">>, <<"S">>, <<>>}

Contents ==
    Lines \cup {l \o <<Newline>> \o m : l \in Lines, m \in SecondLines}

FmtInit ==
    /\ section \in {"goals", "achievements"}
    /\ content \in Contents \ {<<>>}
    /\ lines = <<>>
    /\ isList = FALSE
    /\ lineIndex = 0
    /\ formatted = <<>>
    /\ fpc = "start"

InitFmt == FmtInit /\ ApiIdle /\ ConvIdle /\ RndIdle /\ MoreIdle

SpecFmt == InitFmt /\ [][FmtNext]_vars

(***************************************************************************)
(* Claims about API.call, checked under Spec.                              *)
(***************************************************************************)
Done == pc \in {"returned", "thrown"}

\* Request number r has been issued and answered.
Answered(r) == r <= requests /\ (r < requests \/ pc # "fetch")

\* The attempt fails by timeout or network error.
Fails(o) == o.kind \in {"timeout", "neterr"}

\* The attempt is answered with the given status and a body that decodes.
AnsweredWith(o, s) == o.kind = "response" /\ o.status = s /\ o.decodes

\* The error object a failed attempt r throws.
ErrorOf(r) == IF net[r].kind = "timeout" THEN AbortError(r) ELSE TypeError(r)

SessionExpiredKind(e) ==
    e.message = "Session expired. Please login again." \/ e.status = 401

\* C1: with budget N >= 1, when the first k < N attempts fail by timeout or
\* network error and attempt k+1 is answered 2xx, the call issues exactly k+1
\* requests and returns the decoded body of that response.
C1_RetryThenSuccess ==
    \A k \in 0..(retries - 1) :
        ( /\ \A j \in 1..k : Fails(net[j])
          /\ AnsweredWith(net[k + 1], 200) )
        => /\ requests <= k + 1
           /\ Done => ( /\ pc = "returned"
                        /\ result = Body(k + 1)
                        /\ requests = k + 1 )

\* C1 witness: budget 3, two failures, then the success is returned.
C1_Witness ==
    /\ retries = 3
    /\ Fails(net[1]) /\ Fails(net[2]) /\ AnsweredWith(net[3], 200)
    /\ pc = "returned" /\ result = Body(3) /\ requests = 3

\* C2 (as claimed): for every budget N >= 1, when the first request is
\* answered 401, the refresh succeeds and the following request is answered
\* 200, the call returns the 200 body after exactly one refresh.
C2_RefreshThenSuccess ==
    ( /\ retries >= 1
      /\ net[1].kind = "response" /\ net[1].status = 401
      /\ AnsweredWith(net[2], 200)
      /\ Len(refreshLog) >= 1 /\ refreshLog[1].ok
      /\ Done )
    => /\ pc = "returned"
       /\ result = Body(2)
       /\ Len(refreshLog) = 1

\* C3 (as claimed): once a token refresh has failed, no further request and
\* no further refresh is made, and the call ends by throwing the session
\* error.
C3_RefreshFailureTerminal ==
    \A k \in 1..Len(refreshLog) :
        ~refreshLog[k].ok
        => /\ requests = refreshLog[k].at
           /\ Len(refreshLog) = k
           /\ Done => (pc = "thrown" /\ SessionExpiredKind(result))

\* C4 (as claimed): a 401 answered after the call has used its token refresh
\* makes the call fail with a session-expired error, with no further request
\* and no further refresh.
C4_Second401Terminal ==
    \A r \in 1..requests :
        ( /\ Answered(r)
          /\ AnsweredWith(net[r], 401)
          /\ \E k \in 1..Len(refreshLog) :
                 refreshLog[k].ok /\ refreshLog[k].at < r )
        => /\ requests = r
           /\ \A k \in 1..Len(refreshLog) : refreshLog[k].at < r
           /\ Done => (pc = "thrown" /\ SessionExpiredKind(result))

C6_ExhaustionThrowsLast ==
    ( /\ retries >= 1
      /\ \A j \in 1..retries : Fails(net[j]) )
    => /\ requests <= retries
       /\ requests = retries => pc # "backoff"
       /\ Done => ( /\ pc = "thrown"
                    /\ requests = retries
                    /\ result = ErrorOf(retries)
                    /\ Len(delays) = retries - 1 )

\* C6 witness: budget 3, three failures, the third error is thrown.
C6_Witness ==
    /\ retries = 3
    /\ \A j \in 1..3 : Fails(net[j])
    /\ pc = "thrown" /\ result = ErrorOf(3) /\ requests = 3 /\ Len(delays) = 2

\* C21: every call ends, returning a body or throwing, and stays ended: it
\* makes no attempt after that.
C21_Terminates == <>[](pc \in {"returned", "thrown"})

\* C21 witness: a call that waited, tried again and returned.
C21_Witness ==
    /\ pc = "returned"
    /\ requests >= 2
    /\ Len(delays) >= 1

\* min(1000 * 2^k, 10000), written out.
ExpectedDelay(k) == IF 1000 * (2 ^ k) <= 10000 THEN 1000 * (2 ^ k) ELSE 10000

SuccessfulRefreshes == Cardinality({k \in 1..Len(refreshLog) : refreshLog[k].ok})

\* C23: the delay waited after the failed attempt with 0-based index i is
\* min(1000 * 2^i, 10000) ms, and every attempt after the first follows
\* either such a delay or a successful token refresh.
C23_BackoffDelay ==
    /\ pc = "backoff" => delays[Len(delays)] = ExpectedDelay(i)
    /\ \A k \in 1..Len(delays) : delays[k] >= 1000 /\ delays[k] <= 10000
    /\ pc = "fetch" => Len(delays) + SuccessfulRefreshes = attemptCount - 1

\* C23 witness: five timeouts in a row; the delays double from 1000 ms and
\* the fifth is held at the ceiling.
C23_Witness ==
    /\ pc = "backoff"
    /\ i = 4
    /\ delays = <<1000, 2000, 4000, 8000, 10000>>

\* C16 (as claimed): a successful refresh uses no retry slot: with budget N,
\* a 401 (refreshed successfully), then N-1 timeouts, then a 2xx response,
\* the call returns the 2xx body.
C16_RefreshKeepsBudget ==
    ( /\ retries >= 1
      /\ net[1].kind = "response" /\ net[1].status = 401
      /\ \A j \in 2..retries : net[j].kind = "timeout"
      /\ AnsweredWith(net[retries + 1], 200)
      /\ Len(refreshLog) >= 1 /\ refreshLog[1].ok
      /\ Done )
    => /\ pc = "returned"
       /\ result = Body(retries + 1)

\* C17 (as claimed): in every reachable state of a call, the call has
\* started at most one token refresh.
C17_AtMostOneRefresh ==
    Len(refreshLog) + (IF pc = "refresh" THEN 1 ELSE 0) <= 1

\* C18 (as claimed): every attempt, the one after a successful refresh
\* included, sends the bearer token held in the token store at that moment,
\* for JSON calls and for multipart calls made through postFormData.
C18_SendsCurrentToken ==
    \A r \in 1..Len(sent) : sent[r].auth = sent[r].store

\* C19 (as claimed): once a request has been answered with a 2xx status the
\* call issues no further request, also when decoding the body fails.
C19_NoResendAfter2xx ==
    \A r \in 1..requests :
        (Answered(r) /\ net[r].kind = "response" /\ Ok(net[r].status))
        => requests = r

\* C20 (as claimed): whenever the call ends in failure, the value it throws
\* is a defined error, never null, for every budget (0 and 1 included).
C20_ThrowsDefinedError ==
    pc = "thrown" => result # Null

(***************************************************************************)
(* Claims about convertDeltaToHtml, checked under SpecConv.                *)
(***************************************************************************)
\* the data characters of a fragment, in order
RECURSIVE DataChars(_)
DataChars(frag) ==
    IF frag = <<>> THEN <<>>
    ELSE (IF Head(frag).t = "char" THEN <<Head(frag).c>> ELSE <<>>)
             \o DataChars(Tail(frag))

Entities ==
    {[of |-> "&", as |-> <<"&", "a", "m", "p", ";">>],
     [of |-> "<", as |-> <<"&", "l", "t", ";">>],
     [of |-> ">", as |-> <<"&", "g", "t", ";">>],
     [of |-> "\"", as |-> <<"&", "q", "u", "o", "t", ";">>],
     [of |-> "'", as |-> <<"&", "#", "0", "3", "9", ";">>]}

StartsWith(str, prefix) ==
    Len(str) >= Len(prefix) /\ SubSeq(str, 1, Len(prefix)) = prefix

\* Reading escaped characters back.  ok is FALSE when a raw <, >, ", ' or an
\* & that begins no entity is met; text is what the entities stand for.
RECURSIVE Unescape(_)
Unescape(str) ==
    IF str = <<>> THEN [ok |-> TRUE, text |-> <<>>]
    ELSE IF \E e \in Entities : StartsWith(str, e.as)
    THEN LET e == CHOOSE x \in Entities : StartsWith(str, x.as)
             rest == Unescape(SubSeq(str, Len(e.as) + 1, Len(str)))
         IN  [ok |-> rest.ok, text |-> <<e.of>> \o rest.text]
    ELSE LET rest == Unescape(Tail(str))
         IN  [ok |-> rest.ok /\ Head(str) \notin {"&", "<", ">", "\"", "'"},
              text |-> <<Head(str)>> \o rest.text]

IsTextOp(e) == e.kind = "op" /\ e.insertType = "string"

InvalidOrEmpty(d) ==
    d.kind = "null" \/ d.opsKind # "array" \/ d.ops = <<>>

\* C7 (as claimed): for any input, null delta, missing ops, ops that is not a
\* sequence and ops with null entries included, the conversion does not
\* throw, and it returns '' for absent or invalid input and the empty op-log.
C7_NeverThrows ==
    /\ cpc # "threw"
    /\ (cpc = "done" /\ InvalidOrEmpty(delta)) => html = <<>>

\* C8: in what the converter emits for a text operation, the characters
\* <, >, &, " and ' of the operation's text (and of its link) appear only as
\* their entities: no raw one is emitted, and reading the entities back
\* gives the text.
C8_TextEscaped ==
    \A k \in 1..Len(frags) :
        IsTextOp(delta.ops[k])
        => LET back == Unescape(DataChars(frags[k]))
           IN  /\ back.ok
               /\ back.text = AttrsOf(delta.ops[k]).link \o delta.ops[k].text

\* C8 witness: a converted operation whose text holds all of < & ' or " >.
C8_Witness ==
    /\ cpc = "done"
    /\ \E k \in 1..Len(frags) :
          /\ IsTextOp(delta.ops[k])
          /\ delta.ops[k].text \in {<<"<", "'">>, <<"&", "\"">>, <<">", "&">>}
          /\ Len(DataChars(frags[k])) > Len(delta.ops[k].text)

\* the positions of a token in html
Positions(tok) == {p \in 1..Len(html) : html[p] = tok}

\* k >= 1 text operations with list 'bullet', then one without list
BulletRunThenText(ops) ==
    /\ Len(ops) >= 2
    /\ \A k \in 1..(Len(ops) - 1) :
           IsTextOp(ops[k]) /\ AttrsOf(ops[k]).list = "bullet"
    /\ IsTextOp(ops[Len(ops)]) /\ AttrsOf(ops[Len(ops)]).list = ""

\* C9 (as claimed): for k >= 1 bullet operations followed by a text
\* operation without list, the output has exactly one <ul> and one </ul>,
\* they enclose exactly k complete <li>...</li> items, and the text of the
\* following operation lies after the </ul>.
C9_BulletListBoundary ==
    (cpc = "done" /\ BulletRunThenText(delta.ops))
    => /\ Cardinality(Positions(Open("ul"))) = 1
       /\ Cardinality(Positions(Close("ul"))) = 1
       /\ \A o \in Positions(Open("ul")), c \in Positions(Close("ul")) :
             /\ o < c
             /\ Cardinality({p \in Positions(Open("li")) : o < p /\ p < c})
                    = Len(delta.ops) - 1
             /\ Cardinality({p \in Positions(Close("li")) : o < p /\ p < c})
                    = Len(delta.ops) - 1
             /\ \A p \in Positions(Ch(Letter(Len(delta.ops)))) : c < p

\* C10 (as claimed): every header tag emitted for a text operation with an
\* integer header attribute has a level within 1..6, and header 9 gives
\* level 6.
C10_HeaderLevelClamped ==
    \A k \in 1..Len(frags) :
        IsTextOp(delta.ops[k])
        => \A p \in 1..Len(frags[k]) :
               frags[k][p].name = "h"
               => /\ frags[k][p].level \in 1..6
                  /\ AttrsOf(delta.ops[k]).header = 9 => frags[k][p].level = 6

\* The constructs whose wrapper spans several operations.
Constructs == {"header", "blockquote", "code-block", "list"}

\* the text operation e carries the attribute of construct c
Carries(e, c) ==
    /\ IsTextOp(e)
    /\ CASE c = "header" -> AttrsOf(e).header # 0
         [] c = "blockquote" -> AttrsOf(e).blockquote
         [] c = "code-block" -> AttrsOf(e).codeBlock
         [] c = "list" -> AttrsOf(e).list # ""

\* two operations that carry c carry the same value of it
SameValue(e, f, c) ==
    CASE c = "header" -> AttrsOf(e).header = AttrsOf(f).header
      [] c = "list" -> AttrsOf(e).list = AttrsOf(f).list
      [] OTHER -> TRUE

\* ops[a..b] is a maximal run of text operations with one value of c
MaximalRun(ops, a, b, c) ==
    /\ a <= b
    /\ \A k \in a..b : Carries(ops[k], c) /\ SameValue(ops[k], ops[a], c)
    /\ ~(Carries(At(ops, a - 1), c) /\ SameValue(At(ops, a - 1), ops[a], c))
    /\ ~(Carries(At(ops, b + 1), c) /\ SameValue(At(ops, b + 1), ops[a], c))

\* the tag names of the wrapper of construct c
WrapperNames(c) ==
    CASE c = "header" -> {"h"}
      [] c = "blockquote" -> {"blockquote"}
      [] c = "code-block" -> {"pre"}
      [] c = "list" -> {"ul", "ol"}

\* how many opening (closing) tags of construct c a fragment holds
Opens(frag, c) ==
    Cardinality({p \in 1..Len(frag) :
                     frag[p].t = "open" /\ frag[p].name \in WrapperNames(c)})
Closes(frag, c) ==
    Cardinality({p \in 1..Len(frag) :
                     frag[p].t = "close" /\ frag[p].name \in WrapperNames(c)})

\* C24 (as claimed): for header, blockquote, code-block and list, and every
\* maximal run of contiguous text operations with the same value of that
\* attribute, the wrapper's opening tag is emitted exactly once, on the
\* run's first operation, and its closing tag exactly once, on the run's
\* last operation; a change of value ends one wrapper and starts the next.
C24_RunWrappedOnce ==
    cpc = "done"
    => \A c \in Constructs :
         \A a \in 1..Len(delta.ops), b \in 1..Len(delta.ops) :
           MaximalRun(delta.ops, a, b, c)
           => \A k \in a..b :
                 /\ Opens(frags[k], c) = (IF k = a THEN 1 ELSE 0)
                 /\ Closes(frags[k], c) = (IF k = b THEN 1 ELSE 0)

\* the fragments of the first k operations, joined as html joins them
RECURSIVE Joined(_, _)
Joined(fs, k) == IF k = 0 THEN <<>> ELSE Joined(fs, k - 1) \o fs[k]

\* the wrapper tag of a kind of list
ListTagOf(kind) == IF kind = "ordered" THEN "ol" ELSE "ul"

IsListTag(tok) == tok.t \in {"open", "close"} /\ tok.name \in {"ul", "ol"}

\* The last list tag before the item of operation k: the opening tag of the
\* wrapper that encloses the item, or a closing tag (or Lit("")) if none does.
EnclosingList(k) ==
    LET frag == frags[k]
        item == CHOOSE p \in 1..Len(frag) : frag[p] = Open("li")
        pre == Joined(frags, k - 1) \o SubSeq(frag, 1, item)
        at == {p \in 1..Len(pre) : IsListTag(pre[p])}
    IN  IF at = {} THEN Lit("")
        ELSE pre[CHOOSE p \in at : \A q \in at : q <= p]

\* operations k and k + 1 are list items of different kinds
KindChanges(ops, k) ==
    /\ k + 1 <= Len(ops)
    /\ Carries(ops[k], "list") /\ Carries(ops[k + 1], "list")
    /\ AttrsOf(ops[k]).list # AttrsOf(ops[k + 1]).list

\* C25 (as claimed): where a list of one kind is followed immediately by a
\* list of the other kind, the first kind's wrapper is closed on its last
\* item and the second kind's wrapper is opened on its first item, each of
\* the two items lies in a wrapper of its own kind, and a list closing tag
\* emitted with the second item is of the second kind.
C25_ListKindChange ==
    cpc = "done"
    => \A k \in 1..Len(delta.ops) :
         KindChanges(delta.ops, k)
         => LET first == ListTagOf(AttrsOf(delta.ops[k]).list)
                second == ListTagOf(AttrsOf(delta.ops[k + 1]).list)
            IN  /\ \E p \in 1..Len(frags[k]) : frags[k][p] = Close(first)
                /\ \E p \in 1..Len(frags[k + 1]) : frags[k + 1][p] = Open(second)
                /\ EnclosingList(k) = Open(first)
                /\ EnclosingList(k + 1) = Open(second)
                /\ \A p \in 1..Len(frags[k + 1]) :
                       (IsListTag(frags[k + 1][p]) /\ frags[k + 1][p].t = "close")
                       => frags[k + 1][p] = Close(second)

\* The element a token opens or closes: its name and, for a header, its
\* level.  <img> is void and opens nothing.
IsOpenTag(tok) ==
    \/ tok.t = "open"
    \/ tok \in {Lit("<a href=\""), Lit("<span class=\"math-formula\">")}
IsCloseTag(tok) == tok.t = "close"
ElementOf(tok) ==
    IF tok = Lit("<a href=\"") THEN <<"a", 0>>
    ELSE IF tok = Lit("<span class=\"math-formula\">") THEN <<"span", 0>>
    ELSE <<tok.name, tok.level>>

\* Every closing tag closes the innermost open element and nothing stays
\* open; open holds the open elements, innermost first.
RECURSIVE Balanced(_, _)
Balanced(toks, open) ==
    IF toks = <<>> THEN open = <<>>
    ELSE IF IsOpenTag(Head(toks))
    THEN Balanced(Tail(toks), <<ElementOf(Head(toks))>> \o open)
    ELSE IF IsCloseTag(Head(toks))
    THEN /\ open # <<>>
         /\ Head(open) = ElementOf(Head(toks))
         /\ Balanced(Tail(toks), Tail(open))
    ELSE Balanced(Tail(toks), open)

\* C26 (as claimed): for every op-log the converter's output is well formed:
\* every opening tag it emits has a matching closing tag and the tags close
\* in the reverse of the order they were opened in, stacked attributes on
\* one operation included.
C26_WellFormed ==
    cpc = "done" => Balanced(html, <<>>)

\* an embed: op.insert is an object
IsEmbedOp(e) == e.kind = "op" /\ e.insertType = "object"

\* the data of an embed, in the order the markup holds it
EmbedData(e) ==
    IF e.image # <<>> THEN e.image \o e.attributes.alt ELSE e.formula

\* C27 (as claimed): in what the converter emits for an embed, the image
\* URL, the image alt text and the formula expression are HTML-escaped: no
\* raw <, > or double quote of the operation's data is inside the <img> tag
\* or the marker span, and reading the entities back gives the data.
C27_EmbedEscaped ==
    \A k \in 1..Len(frags) :
        IsEmbedOp(delta.ops[k])
        => LET back == Unescape(DataChars(frags[k]))
           IN  /\ \A p \in 1..Len(frags[k]) :
                      frags[k][p].t = "char" => frags[k][p].c \notin {"<", ">", "\""}
               /\ back.ok
               /\ back.text = EmbedData(delta.ops[k])

(***************************************************************************)
(* Claims about the list formatter, checked under SpecFmt.                 *)
(***************************************************************************)
\* A line that opens with digits and then "." or ")".
IsNumbered(t) ==
    /\ t # <<>>
    /\ Head(t) \in Digits
    /\ LET r == StripLeading(t, Digits) IN r # <<>> /\ Head(r) \in {".", ")"}

\* A line that opens with a bullet, a dash or an asterisk.
IsBulleted(t) == t # <<>> /\ Head(t) \in {Bullet, "-", "*"}

\* The text after the marker of a numbered or bulleted line.
AfterMarker(t) ==
    IF IsNumbered(t)
    THEN StripLeading(Tail(StripLeading(t, Digits)), Whitespace)
    ELSE StripLeading(Tail(t), Whitespace)

\* C15: in content detected as a list, the entry rendered for a line that
\* opens with a marker (digits then "." or ")", or a bullet, dash or
\* asterisk) is exactly the text after that marker.
C15_WholeMarkerRemoved ==
    \A k \in 1..Len(formatted) :
        LET e == formatted[k] IN
        (e.tag \in {"li", "card"} /\ (IsNumbered(Trim(lines[e.line]))
                                      \/ IsBulleted(Trim(lines[e.line]))))
            => e.text = AfterMarker(Trim(lines[e.line]))

(***************************************************************************)
(*        PART 4: processQuillContent and renderPost (content node)        *)
(*                                                                         *)
(* The three passes of processQuillContent assign their argument to the    *)
(* innerHTML of a detached div and work on the tree the browser builds.  An *)
(* HTML string is kept here as that tree: a sequence of nodes in document  *)
(* order, each with the index of its parent (0 is the div itself).         *)
(***************************************************************************)
Tree(tag, cls, attrs, kids) ==
    [tag |-> tag, cls |-> cls, attrs |-> attrs, text |-> <<>>, kids |-> kids]

Text(chars) ==
    [tag |-> "#text", cls |-> {}, attrs |-> {}, text |-> chars, kids |-> <<>>]

\* The nodes of a sequence of trees under the node par, the first of them
\* getting the index base + 1.
RECURSIVE Flatten(_, _, _)
Flatten(trees, par, base) ==
    IF trees = <<>> THEN <<>>
    ELSE LET t == Head(trees)
             me == base + 1
             sub == Flatten(t.kids, me, me)
         IN  <<[tag |-> t.tag, parent |-> par, cls |-> t.cls, style |-> {},
                attrs |-> t.attrs, text |-> t.text]>>
                 \o sub \o Flatten(Tail(trees), par, me + Len(sub))

\* a is an ancestor of n
RECURSIVE IsAncestor(_, _, _)
IsAncestor(dom, a, n) ==
    IF n = 0 THEN FALSE
    ELSE dom[n].parent = a \/ IsAncestor(dom, a, dom[n].parent)

\* The last node of the subtree of k.
SubtreeEnd(dom, k) ==
    LET inside == {j \in (k + 1)..Len(dom) : IsAncestor(dom, k, j)}
    IN  IF inside = {} THEN k ELSE CHOOSE j \in inside : \A m \in inside : m <= j

\* el.textContent
RECURSIVE TextFrom(_, _, _)
TextFrom(dom, k, j) ==
    IF j > Len(dom) THEN <<>>
    ELSE (IF dom[j].tag = "#text" /\ IsAncestor(dom, k, j) THEN dom[j].text ELSE <<>>)
             \o TextFrom(dom, k, j + 1)

TextContent(dom, k) == TextFrom(dom, k, k + 1)

\* Inline style is a set of <<property, value>> pairs.
HasStyle(node, prop) ==
    \E s \in node.style :
        s[1] = prop \/ (prop \in {"marginTop", "marginBottom"} /\ s[1] = "margin")

SetStyle(node, prop, val) ==
    [node EXCEPT !.style = {s \in @ : s[1] # prop} \cup {<<prop, val>>}]

HasAttr(node, name) == \E a \in node.attrs : a[1] = name

AttrValue(node, name) ==
    IF HasAttr(node, name)
    THEN (CHOOSE a \in node.attrs : a[1] = name)[2]
    ELSE <<>>

SetAttr(node, name, val) ==
    [node EXCEPT !.attrs = {a \in @ : a[1] # name} \cup {<<name, val>>}]

\* parent.insertBefore(node, dom[k]) followed by node.appendChild(dom[k]):
\* the new node takes the place of k and k becomes its only child.
WrapNode(dom, k, node) ==
    [j \in 1..(Len(dom) + 1) |->
        IF j < k THEN dom[j]
        ELSE IF j = k THEN [node EXCEPT !.parent = dom[k].parent]
        ELSE IF j = k + 1 THEN [dom[k] EXCEPT !.parent = k]
        ELSE [dom[j - 1] EXCEPT !.parent = IF @ >= k THEN @ + 1 ELSE @]]

\* The children of k are replaced by the given trees.
ReplaceChildren(dom, k, trees) ==
    LET e == SubtreeEnd(dom, k)
        new == Flatten(trees, k, k)
        shift == Len(new) - (e - k)
        after == SubSeq(dom, e + 1, Len(dom))
    IN  SubSeq(dom, 1, k) \o new
            \o [j \in 1..Len(after) |->
                   [after[j] EXCEPT !.parent = IF @ > e THEN @ + shift ELSE @]]

(***************************************************************************)
(* The tree the browser builds from what convertDeltaToHtml returns.  Of   *)
(* the tree construction rules this keeps the ones its output needs: an    *)
(* end tag closes the open elements up to the one it names and is ignored  *)
(* when no such element is open, img is void, character references are     *)
(* decoded.  Attribute values are read up to the closing literal.          *)
(***************************************************************************)
\* `<h${level}`: a heading for levels 1 to 6, an unknown element otherwise.
TagName(tk) ==
    IF tk.name = "h"
    THEN (IF tk.level \in 1..6
          THEN <<"h1", "h2", "h3", "h4", "h5", "h6">>[tk.level]
          ELSE "h-other")
    ELSE tk.name

\* The class attribute the converter writes with each start tag.
ClassOf(tag, parentTag) ==
    IF tag \in {"h1", "h2", "h3", "h4", "h5", "h6", "h-other"} THEN {"content-header"}
    ELSE IF tag = "blockquote" THEN {"content-blockquote"}
    ELSE IF tag = "pre" THEN {"content-pre"}
    ELSE IF tag = "code" THEN (IF parentTag = "pre" THEN {} ELSE {"inline-code"})
    ELSE IF tag \in {"ul", "ol"} THEN {"content-list"}
    ELSE IF tag = "li" THEN {"content-list-item"}
    ELSE {}

\* Character references read back.
RECURSIVE DecodeEntities(_)
DecodeEntities(str) ==
    IF str = <<>> THEN <<>>
    ELSE IF \E e \in Entities : StartsWith(str, e.as)
    THEN LET e == CHOOSE x \in Entities : StartsWith(str, x.as)
         IN  <<e.of>> \o DecodeEntities(SubSeq(str, Len(e.as) + 1, Len(str)))
    ELSE <<Head(str)>> \o DecodeEntities(Tail(str))

\* The characters at the front of a token sequence, and what follows them.
RECURSIVE TakeChars(_)
TakeChars(toks) ==
    IF toks # <<>> /\ Head(toks).t = "char"
    THEN <<Head(toks).c>> \o TakeChars(Tail(toks))
    ELSE <<>>

AfterChars(toks) == SubSeq(toks, Len(TakeChars(toks)) + 1, Len(toks))

NewNode(tag, par, cls, attrs) ==
    [tag |-> tag, parent |-> par, cls |-> cls, style |-> {}, attrs |-> attrs,
     text |-> <<>>]

RECURSIVE Build(_, _, _)
Build(toks, dom, stack) ==
    IF toks = <<>> THEN dom
    ELSE
    LET tk == Head(toks)
        rest == Tail(toks)
        top == IF stack = <<>> THEN 0 ELSE stack[Len(stack)]
        topTag == IF top = 0 THEN "div" ELSE dom[top].tag
        next == Len(dom) + 1
    IN
    IF tk.t = "char" THEN
        IF dom # <<>> /\ dom[Len(dom)].tag = "#text" /\ dom[Len(dom)].parent = top
        THEN Build(rest, [dom EXCEPT ![Len(dom)].text = Append(@, tk.c)], stack)
        ELSE Build(rest,
                   Append(dom, [NewNode("#text", top, {}, {}) EXCEPT !.text = <<tk.c>>]),
                   stack)
    ELSE IF tk.t = "open" THEN
        Build(rest,
              Append(dom, NewNode(TagName(tk), top, ClassOf(TagName(tk), topTag), {})),
              Append(stack, next))
    ELSE IF tk.t = "close" THEN
        LET open == {j \in 1..Len(stack) : dom[stack[j]].tag = TagName(tk)}
        IN  IF open = {} THEN Build(rest, dom, stack)
            ELSE LET j == CHOOSE x \in open : \A y \in open : y <= x
                 IN  Build(rest, dom, SubSeq(stack, 1, j - 1))
    ELSE IF tk.name = "<a href=\"" THEN
        \* <a href="..." target="_blank" rel="noopener noreferrer">
        Build(Tail(AfterChars(rest)),
              Append(dom, NewNode("a", top, {},
                                  {<<"href", DecodeEntities(TakeChars(rest))>>,
                                   <<"target", <<"_blank">> >>,
                                   <<"rel", <<"noopener noreferrer">> >>})),
              Append(stack, next))
    ELSE IF tk.name = "<img src=\"" THEN
        \* <img src="..." alt="..." class="content-image">
        LET toAlt == Tail(AfterChars(rest))
        IN  Build(Tail(AfterChars(toAlt)),
                  Append(dom, NewNode("img", top, {"content-image"},
                                      {<<"src", DecodeEntities(TakeChars(rest))>>,
                                       <<"alt", DecodeEntities(TakeChars(toAlt))>>})),
                  stack)
    ELSE
        \* <span class="math-formula">
        Build(rest, Append(dom, NewNode("span", top, {"math-formula"}, {})),
              Append(stack, next))

ParseTokens(toks) ==
    LET dom == Build(toks, <<>>, <<>>)
    IN  [k \in 1..Len(dom) |-> [dom[k] EXCEPT !.text = DecodeEntities(@)]]

\* convertDeltaToHtml as a function of its argument: what it returns, or
\* that it throws.
RECURSIVE ConvertFrom(_, _, _, _)
ConvertFrom(ops, k, inL, lt) ==
    IF k > Len(ops) THEN [threw |-> FALSE, html |-> <<>>]
    ELSE IF ops[k].kind = "null" THEN [threw |-> TRUE, html |-> <<>>]
    ELSE LET r == ProcessOp(ops, k, inL, lt)
             rest == ConvertFrom(ops, k + 1, r.inList, r.listType)
         IN  [threw |-> rest.threw, html |-> r.frag \o rest.html]

ConvertDelta(d) ==
    IF d.kind = "null" \/ d.opsKind \in {"undefined", "emptystring"}
    THEN [threw |-> FALSE, html |-> <<>>]
    ELSE IF d.opsKind # "array" THEN [threw |-> TRUE, html |-> <<>>]
    ELSE ConvertFrom(d.ops, 1, FALSE, "")

(***************************************************************************)
(* processMathFormulas                                                     *)
(***************************************************************************)
\* '.formula, .katex, .math, [data-formula]'
MatchesFormula(node) ==
    /\ node.tag # "#text"
    /\ \/ node.cls \cap {"formula", "katex", "math"} # {}
       \/ HasAttr(node, "data-formula")

\* el.textContent || el.getAttribute('data-formula') || ''
FormulaOf(dom, k) ==
    IF TextContent(dom, k) # <<>> THEN TextContent(dom, k)
    ELSE AttrValue(dom[k], "data-formula")

\* What katex.render leaves in the element.
Typeset(formula) == <<Tree("span", {"katex"}, {}, <<Text(formula)>>)>>

\* formulaElements.forEach from position k on.  selected[j] tells whether
\* node j is in the list querySelectorAll returned.
RECURSIVE MathFrom(_, _, _)
MathFrom(dom, selected, k) ==
    IF k > Len(dom) THEN dom
    ELSE IF selected[k] /\ FormulaOf(dom, k) # <<>>
    THEN LET e == SubtreeEnd(dom, k)
             new == ReplaceChildren(dom, k, Typeset(FormulaOf(dom, k)))
             added == Len(new) - (Len(dom) - (e - k))
         IN  MathFrom(new,
                      SubSeq(selected, 1, k) \o [j \in 1..added |-> FALSE]
                          \o SubSeq(selected, e + 1, Len(selected)),
                      k + 1)
    ELSE MathFrom(dom, selected, k + 1)

\* With katex undefined the string is returned as it is; a katex.render
\* that throws is caught by the callback and leaves the element as it was.
processMathFormulas(dom, lib) ==
    IF lib = "renders"
    THEN MathFrom(dom, [k \in 1..Len(dom) |-> MatchesFormula(dom[k])], 1)
    ELSE dom

\* Some katex.render call of the pass is made.
RendersFormula(dom) ==
    \E k \in 1..Len(dom) : MatchesFormula(dom[k]) /\ FormulaOf(dom, k) # <<>>

(***************************************************************************)
(* enhanceTables                                                           *)
(***************************************************************************)
\* A cell left without inline style.
NoCss == {}

TdCss == {<<"border", "1px solid #ddd">>, <<"padding", "10px 12px">>}

\* The cssText given to th.
ThCss ==
    {<<"backgroundColor", "#f5f5f5">>, <<"border", "1px solid #ddd">>,
     <<"padding", "12px">>, <<"textAlign", "left">>, <<"fontWeight", "600">>}

Wrapper ==
    [NewNode("div", 0, {"table-responsive"}, {}) EXCEPT
        !.style = {<<"overflowX", "auto">>, <<"margin", "20px 0">>}]

\* The callback of tables.forEach on the table at index t.  The display and
\* tableLayout set first are replaced by the assignment to cssText.
EnhanceTable(dom, t) ==
    LET rows == {j \in 1..Len(dom) : dom[j].tag = "tr" /\ IsAncestor(dom, t, j)}
        rowIndex(j) == Cardinality({r \in rows : r < j})
        styled ==
            [j \in 1..Len(dom) |->
                IF j = t
                THEN [dom[j] EXCEPT !.style = {<<"width", "100%">>,
                                               <<"borderCollapse", "collapse">>,
                                               <<"margin", "0">>},
                                    !.cls = @ \cup {"content-table"}]
                ELSE IF dom[j].tag = "th" /\ IsAncestor(dom, t, j)
                THEN [dom[j] EXCEPT !.style = ThCss]
                ELSE IF dom[j].tag = "td" /\ IsAncestor(dom, t, j)
                THEN [dom[j] EXCEPT !.style = TdCss]
                ELSE IF j \in rows /\ rowIndex(j) % 2 = 0
                THEN SetStyle(dom[j], "backgroundColor", "#f9f9f9")
                ELSE dom[j]]
    IN  WrapNode(styled, t, Wrapper)

\* tables.forEach over the tables found in the tree, in document order.
RECURSIVE EnhanceFrom(_, _)
EnhanceFrom(dom, k) ==
    IF k > Len(dom) THEN dom
    ELSE IF dom[k].tag = "table" THEN EnhanceFrom(EnhanceTable(dom, k), k + 2)
    ELSE EnhanceFrom(dom, k + 1)

enhanceTables(dom) == EnhanceFrom(dom, 1)

(***************************************************************************)
(* addContentStyling                                                       *)
(***************************************************************************)
BlockquoteCss ==
    {<<"borderLeft", "4px solid #3498db">>, <<"margin", "25px 0">>,
     <<"color", "#555">>, <<"fontStyle", "italic">>,
     <<"backgroundColor", "#f8f9fa">>, <<"padding", "15px">>}

PreCss ==
    {<<"backgroundColor", "#f5f5f5">>, <<"padding", "20px">>,
     <<"borderRadius", "4px">>, <<"overflowX", "auto">>, <<"margin", "20px 0">>,
     <<"fontFamily", "\"Courier New\", monospace">>}

CodeCss ==
    {<<"backgroundColor", "#f0f0f0">>, <<"padding", "2px 6px">>,
     <<"borderRadius", "3px">>, <<"fontFamily", "\"Courier New\", monospace">>,
     <<"fontSize", "0.9em">>}

\* if (!el.className.includes(name)) el.className = name
WithClass(node, name) ==
    IF name \in node.cls THEN node ELSE [node EXCEPT !.cls = {name}]

\* if (!el.style[prop]) el.style[prop] = val
DefaultStyle(node, prop, val) ==
    IF HasStyle(node, prop) THEN node ELSE SetStyle(node, prop, val)

\* if (!el.style.cssText) el.style.cssText = css
DefaultCss(node, css) ==
    IF node.style # {} THEN node ELSE [node EXCEPT !.style = css]

HeaderMarginTop(tag) ==
    IF tag = "h1" THEN "40px" ELSE IF tag = "h2" THEN "35px"
    ELSE IF tag = "h3" THEN "30px" ELSE "25px"

HeaderMarginBottom(tag) ==
    IF tag = "h1" THEN "20px" ELSE IF tag = "h2" THEN "18px"
    ELSE IF tag = "h3" THEN "16px" ELSE "14px"

\* The address of the page and the scheme that makes a URL absolute.
DocumentUrl == <<"https:", "/", "/", "site", "/", "post">>
Scheme == <<"https:">>

\* link.href: the attribute resolved against the address of the page.
Href(node) ==
    IF ~HasAttr(node, "href") THEN <<>>
    ELSE IF StartsWith(AttrValue(node, "href"), Scheme)
    THEN AttrValue(node, "href")
    ELSE DocumentUrl \o AttrValue(node, "href")

StyleNode(dom, k) ==
    LET node == dom[k]
        inPre == \E a \in 1..Len(dom) : dom[a].tag = "pre" /\ IsAncestor(dom, a, k)
    IN
    IF node.tag \in {"h1", "h2", "h3", "h4", "h5", "h6"}
    THEN DefaultStyle(DefaultStyle(DefaultStyle(WithClass(node, "content-header"),
             "marginTop", HeaderMarginTop(node.tag)),
             "marginBottom", HeaderMarginBottom(node.tag)),
             "color", "#2c3e50")
    ELSE IF node.tag = "p"
    THEN DefaultStyle(DefaultStyle(WithClass(node, "content-paragraph"),
             "marginBottom", "16px"), "lineHeight", "1.6")
    ELSE IF node.tag = "blockquote"
    THEN DefaultCss(WithClass(node, "content-blockquote"), BlockquoteCss)
    ELSE IF node.tag = "pre"
    THEN DefaultCss(WithClass(node, "content-pre"), PreCss)
    ELSE IF node.tag = "code" /\ ~inPre
    THEN DefaultCss(WithClass(node, "inline-code"), CodeCss)
    ELSE IF node.tag \in {"ul", "ol"}
    THEN DefaultStyle(WithClass(node, "content-list"), "margin", "20px 0 20px 30px")
    ELSE IF node.tag = "li"
    THEN DefaultStyle(WithClass(node, "content-list-item"), "marginBottom", "8px")
    ELSE IF node.tag = "img"
    THEN DefaultStyle(DefaultStyle(DefaultStyle(DefaultStyle(DefaultStyle(
             WithClass(node, "content-image"),
             "maxWidth", "100%"), "height", "auto"), "margin", "20px 0"),
             "display", "block"), "borderRadius", "4px")
    ELSE IF node.tag = "a" /\ Href(node) # <<>> /\ Head(Href(node)) # "#"
    THEN SetAttr(SetAttr(node, "target", <<"_blank">>),
                 "rel", <<"noopener noreferrer">>)
    ELSE node

addContentStyling(dom) == [k \in 1..Len(dom) |-> StyleNode(dom, k)]

(***************************************************************************)
(* processQuillContent, step by step, inside the try block of renderPost.  *)
(***************************************************************************)
\* if (post.content) is false: the excerpt branch.
RNoContent ==
    /\ rpc = "start"
    /\ postContent.kind = "empty"
    /\ contentEl' = [block |-> "excerpt", dom |-> <<>>, raw |-> postContent]
    /\ rpc' = "done"
    /\ UNCHANGED <<postContent, katex, quillHtml, failed, pass, firstHtml,
                   notRndVars>>

\* let html = content; the Delta test, JSON.parse and the conversion, with
\* the catch block that keeps the content as HTML.
RDetect ==
    /\ rpc = "start"
    /\ postContent.kind # "empty"
    /\ IF postContent.kind = "html"
       THEN /\ quillHtml' = postContent.dom
            /\ UNCHANGED failed
       ELSE IF postContent.kind = "badjson"
       THEN /\ quillHtml' = postContent.dom
            /\ failed' = failed \cup {"detect"}
       ELSE IF postContent.data.kind = "object" /\ postContent.data.opsKind = "array"
       THEN LET r == ConvertDelta(postContent.data)
            IN  IF r.threw
                THEN /\ quillHtml' = postContent.dom
                     /\ failed' = failed \cup {"convert"}
                ELSE /\ quillHtml' = ParseTokens(r.html)
                     /\ UNCHANGED failed
       ELSE /\ quillHtml' = postContent.dom
            /\ UNCHANGED failed
    /\ rpc' = "math"
    /\ UNCHANGED <<postContent, katex, contentEl, pass, firstHtml, notRndVars>>

\* html = processMathFormulas(html)
RMath ==
    /\ rpc = "math"
    /\ quillHtml' = processMathFormulas(quillHtml, katex)
    /\ failed' = IF katex = "throws" /\ RendersFormula(quillHtml)
                 THEN failed \cup {"math"}
                 ELSE failed
    /\ rpc' = "tables"
    /\ UNCHANGED <<postContent, katex, contentEl, pass, firstHtml, notRndVars>>

\* html = enhanceTables(html)
RTables ==
    /\ rpc = "tables"
    /\ quillHtml' = enhanceTables(quillHtml)
    /\ rpc' = "styling"
    /\ UNCHANGED <<postContent, katex, failed, contentEl, pass, firstHtml,
                   notRndVars>>

\* html = addContentStyling(html); return html
RStyling ==
    /\ rpc = "styling"
    /\ quillHtml' = addContentStyling(quillHtml)
    /\ rpc' = "return"
    /\ UNCHANGED <<postContent, katex, failed, contentEl, pass, firstHtml,
                   notRndVars>>

HasPreCode(dom) ==
    \E k \in 1..Len(dom) :
        /\ dom[k].tag = "code"
        /\ \E a \in 1..Len(dom) : dom[a].tag = "pre" /\ IsAncestor(dom, a, k)

\* contentEl.innerHTML = htmlContent, and the highlighting, when it is made,
\* returns.
RPlace ==
    /\ rpc = "return"
    /\ contentEl' = [block |-> "content", dom |-> quillHtml, raw |-> postContent]
    /\ rpc' = "done"
    /\ UNCHANGED <<postContent, katex, quillHtml, failed, pass, firstHtml,
                   notRndVars>>

\* Prism.highlightAllUnder throws: the catch block of renderPost.
RHighlightThrows ==
    /\ rpc = "return"
    /\ HasPreCode(quillHtml)
    /\ failed' = failed \cup {"highlight"}
    /\ contentEl' = [block |-> "error", dom |-> <<>>, raw |-> postContent]
    /\ rpc' = "done"
    /\ UNCHANGED <<postContent, katex, quillHtml, pass, firstHtml, notRndVars>>

NoDelta == [kind |-> "null", opsKind |-> "undefined", ops |-> <<>>]

\* What a pass returned is given to a second pass.
RRenderAgain ==
    /\ rpc = "done"
    /\ pass = 1
    /\ postContent.kind = "html"
    /\ contentEl.block = "content"
    /\ pass' = 2
    /\ firstHtml' = quillHtml
    /\ postContent' = [kind |-> "html", dom |-> quillHtml, data |-> NoDelta]
    /\ failed' = {}
    /\ rpc' = "start"
    /\ UNCHANGED <<katex, quillHtml, contentEl, notRndVars>>

RndNext ==
    \/ RNoContent
    \/ RDetect
    \/ RMath
    \/ RTables
    \/ RStyling
    \/ RPlace
    \/ RHighlightThrows
    \/ RRenderAgain

(***************************************************************************)
(* The inputs of the rendering: HTML of up to MaxBlocks blocks, Delta JSON *)
(* of up to MaxRenderOps operations, and text that opens like JSON and is  *)
(* none.                                                                   *)
(***************************************************************************)
Cell(tag) == Tree(tag, {}, {}, <<Text(<<"a">>)>>)

Row(tag, cols) == Tree("tr", {}, {}, [c \in 1..cols |-> Cell(tag)])

\* A table of the given size as the browser builds it; header tells whether
\* the first row is made of th cells.
Table(rows, cols, header) ==
    Tree("table", {}, {},
         <<Tree("tbody", {}, {},
                [r \in 1..rows |->
                    Row(IF header /\ r = 1 THEN "th" ELSE "td", cols)])>>)

\* A table with a table in its only cell.
NestedTable ==
    Tree("table", {}, {},
         <<Tree("tbody", {}, {},
                <<Tree("tr", {}, {},
                       <<Tree("td", {}, {}, <<Table(1, 1, FALSE)>>)>>)>>)>>)

Blocks ==
    {Tree("p", {}, {}, <<Text(<<"a">>)>>),
     Tree("h1", {}, {}, <<Text(<<"a">>)>>),
     Tree("h4", {}, {}, <<Text(<<"a">>)>>),
     Tree("blockquote", {}, {}, <<Text(<<"a">>)>>),
     Tree("pre", {}, {}, <<Tree("code", {}, {}, <<Text(<<"a">>)>>)>>),
     Tree("p", {}, {}, <<Tree("code", {}, {}, <<Text(<<"a">>)>>)>>),
     Tree("ul", {}, {}, <<Tree("li", {}, {}, <<Text(<<"a">>)>>)>>),
     Tree("img", {}, {<<"src", <<"u">> >>}, <<>>),
     Tree("a", {}, {<<"href", <<"#", "t">> >>}, <<Text(<<"a">>)>>),
     Tree("a", {}, {<<"href", <<"https:", "/", "/", "x">> >>}, <<Text(<<"a">>)>>),
     Tree("span", {"formula"}, {}, <<Text(<<"x">>)>>),
     Tree("div", {}, {<<"data-formula", <<"x">> >>}, <<>>),
     Table(1, 1, FALSE),
     Table(MaxRows, MaxCols, TRUE),
     NestedTable}

HtmlContents ==
    {[kind |-> "html", dom |-> Flatten(bs, 0, 0), data |-> NoDelta] :
         bs \in UNION {[1..n -> Blocks] : n \in 1..MaxBlocks}}

\* Text that opens with a brace and is no JSON, followed by at most one block.
BadJsonContents ==
    {[kind |-> "badjson", dom |-> Flatten(<<Text(<<"{">> \o t)>> \o bs, 0, 0),
      data |-> NoDelta] :
         t \in {<<>>, <<"a">>, <<"&">>, <<"<", " ">>},
         bs \in {<<>>} \cup {<<b>> : b \in Blocks}}

RenderShapes ==
    {TextOp(<<>>, NoAttributes),
     TextOp(<<>>, [Attr EXCEPT !.bold = TRUE]),
     TextOp(<<>>, [Attr EXCEPT !.header = 1]),
     TextOp(<<>>, [Attr EXCEPT !.header = -1]),
     TextOp(<<>>, [Attr EXCEPT !.list = "bullet"]),
     TextOp(<<>>, [Attr EXCEPT !.codeBlock = TRUE]),
     TextOp(<<>>, [Attr EXCEPT !.link = <<"u">>]),
     NullEntry, NumberOp,
     ImageOp(<<"u">>, [Attr EXCEPT !.alt = <<"a">>]),
     FormulaOp(<<"x">>)}

RenderLogs ==
    {Place(log) : log \in UNION {[1..n -> RenderShapes] : n \in 0..MaxRenderOps}}

\* The text of the JSON, as far as the tree built from it goes: the braces
\* and the text of the operations.
RECURSIVE OpTexts(_)
OpTexts(ops) ==
    IF ops = <<>> THEN <<>> ELSE Head(ops).text \o OpTexts(Tail(ops))

JsonText(d) == <<"{">> \o OpTexts(d.ops) \o <<"}">>

JsonContents ==
    {[kind |-> "json", dom |-> Flatten(<<Text(JsonText(d))>>, 0, 0), data |-> d] :
         d \in {[kind |-> "object", opsKind |-> "array", ops |-> log] :
                    log \in RenderLogs}
               \cup {[kind |-> "object", opsKind |-> k, ops |-> <<>>] :
                         k \in {"undefined", "emptystring", "string", "number"}}}

EmptyContent == [kind |-> "empty", dom |-> <<>>, data |-> NoDelta]

PostContents ==
    HtmlContents \cup BadJsonContents \cup JsonContents \cup {EmptyContent}

RndInit ==
    /\ postContent \in PostContents
    /\ katex \in {"undefined", "renders", "throws"}
    /\ quillHtml = <<>>
    /\ failed = {}
    /\ contentEl = [block |-> "untouched", dom |-> <<>>, raw |-> EmptyContent]
    /\ pass = 1
    /\ firstHtml = <<>>
    /\ rpc = "start"

InitRnd == RndInit /\ ApiIdle /\ ConvIdle /\ FmtIdle /\ MoreIdle

SpecRnd == InitRnd /\ [][RndNext]_vars

(***************************************************************************)
(* Claims about the rendering, checked under SpecRnd.                      *)
(***************************************************************************)
IsErrorBlock == contentEl.block = "error" /\ contentEl.raw = postContent

\* C11 (as claimed): when a step of the pipeline (format detection,
\* conversion, math, highlighting) has failed, what is placed in the content
\* node is the error block showing the raw content.
C11_FailureShowsErrorBlock ==
    (rpc = "done" /\ failed # {}) => IsErrorBlock

\* Nothing but text is shown: no markup of the content reached the node.
ShownAsText ==
    \/ contentEl.block = "error"
    \/ /\ contentEl.block = "content"
       /\ \A k \in 1..Len(contentEl.dom) : contentEl.dom[k].tag = "#text"

\* C12 (as claimed): content that opens with a brace and is no JSON is
\* rendered as escaped plain text: every <, > and & of it is shown as text.
C12_BadJsonShownAsText ==
    (rpc = "done" /\ postContent.kind = "badjson") => ShownAsText

\* The elements of a tree with their place, class and inline style.
ElementStructure(dom) ==
    [k \in 1..Len(dom) |->
        [tag |-> dom[k].tag, parent |-> dom[k].parent, cls |-> dom[k].cls,
         style |-> dom[k].style]]

\* C13 (as claimed): rendering what a rendering returned gives the same
\* element structure: no further wrapper, no change of inline style.
C13_RenderIdempotent ==
    (rpc \in {"return", "done"} /\ pass = 2)
        => ElementStructure(quillHtml) = ElementStructure(firstHtml)

IsWrapper(node) == node.tag = "div" /\ "table-responsive" \in node.cls

Children(dom, k) == {j \in 1..Len(dom) : dom[j].parent = k}

\* C14: after one pass over HTML with a table, every td and th has a
\* non-empty inline style, and every table is the only child of a
\* responsive wrapper that is itself not the child of a wrapper.
C14_TableEnhancedOnce ==
    (rpc = "done" /\ pass = 1 /\ contentEl.block = "content")
      => LET dom == contentEl.dom IN
         /\ \A k \in 1..Len(dom) :
                dom[k].tag \in {"td", "th"} => dom[k].style # {}
         /\ \A t \in 1..Len(dom) :
                dom[t].tag = "table" =>
                    LET w == dom[t].parent IN
                    /\ w # 0
                    /\ IsWrapper(dom[w])
                    /\ Children(dom, w) = {t}
                    /\ dom[w].parent = 0 \/ ~IsWrapper(dom[dom[w].parent])

\* Header cells, data cells and a table inside a cell have been through
\* one pass.
C14_Witness ==
    /\ rpc = "done" /\ pass = 1 /\ contentEl.block = "content"
    /\ \E k \in 1..Len(contentEl.dom) : contentEl.dom[k].tag = "th"
    /\ \E k \in 1..Len(contentEl.dom) : contentEl.dom[k].tag = "td"
    /\ \E k \in 1..Len(contentEl.dom) :
           /\ contentEl.dom[k].tag = "td"
           /\ \E t \in 1..Len(contentEl.dom) :
                  contentEl.dom[t].tag = "table" /\ IsAncestor(contentEl.dom, k, t)

\* the marker elements of formulas the converter emitted
FormulaMarkers(dom) == {k \in 1..Len(dom) : "math-formula" \in dom[k].cls}

\* katex.render was made on element k: it holds what katex leaves
IsTypeset(dom, k) ==
    \E j \in 1..Len(dom) : dom[j].parent = k /\ "katex" \in dom[j].cls

\* C28 (as claimed): every formula marker element the converter emits is an
\* element the math pass selects as a formula carrier, and when katex is
\* available the math pass typesets every such element of a converted
\* op-log.
C28_MarkerIsCarrier ==
    /\ (postContent.kind = "json" /\ rpc = "math")
       => \A k \in FormulaMarkers(quillHtml) : MatchesFormula(quillHtml[k])
    /\ (postContent.kind = "json" /\ rpc = "tables" /\ katex = "renders")
       => \A k \in FormulaMarkers(quillHtml) : IsTypeset(quillHtml, k)

(***************************************************************************)
(*            PART 5: two API.call invocations in flight                   *)
(*                                                                         *)
(* calls[c] holds the variables the invocation c declares with let (i,     *)
(* attemptCount, tokenRefreshed, lastError) and its retry budget; fetches  *)
(* and renewals count the requests the invocation issued and the refreshes *)
(* that succeeded for it.  The invocations interleave at their awaits.     *)
(***************************************************************************)
\* largest retry budget of the two invocations
MaxCallRetries == 2

CallStatuses == {200, 401, 500}

\* the catch block, on the locals of one invocation
CallCatch(r, name, status) ==
    LET e == [r EXCEPT !.lastError = name]
    IN  IF name = "AbortError" /\ e.i < e.retries - 1
        THEN [e EXCEPT !.pc = "backoff"]
        ELSE IF status # 0 /\ status # 401
        THEN [e EXCEPT !.pc = "thrown"]
        ELSE IF e.i < e.retries - 1
        THEN [e EXCEPT !.pc = "backoff"]
        ELSE [e EXCEPT !.pc = "loop", !.i = @ + 1]

\* i < retries: attemptCount++ and the fetch
CallAttempt(c) ==
    /\ calls[c].pc = "loop"
    /\ calls[c].i < calls[c].retries
    /\ calls' = [calls EXCEPT ![c] = [@ EXCEPT !.attemptCount = @ + 1,
                                               !.fetches = @ + 1,
                                               !.pc = "fetch"]]
    /\ UNCHANGED <<stored, notCallVars>>

\* the loop is over: throw lastError
CallExhausted(c) ==
    /\ calls[c].pc = "loop"
    /\ calls[c].i >= calls[c].retries
    /\ calls' = [calls EXCEPT ![c] = [@ EXCEPT !.pc = "thrown"]]
    /\ UNCHANGED <<stored, notCallVars>>

\* the request is aborted by the timeout
CallTimeout(c) ==
    /\ calls[c].pc = "fetch"
    /\ calls' = [calls EXCEPT ![c] = CallCatch(@, "AbortError", 0)]
    /\ UNCHANGED <<stored, notCallVars>>

\* fetch rejects
CallFetchFailed(c) ==
    /\ calls[c].pc = "fetch"
    /\ calls' = [calls EXCEPT ![c] = CallCatch(@, "TypeError", 0)]
    /\ UNCHANGED <<stored, notCallVars>>

\* response.status === 401 && !tokenRefreshed
CallUnauthorized(c) ==
    /\ calls[c].pc = "fetch"
    /\ ~calls[c].tokenRefreshed
    /\ calls' = [calls EXCEPT ![c] = [@ EXCEPT !.pc = "refresh"]]
    /\ UNCHANGED <<stored, notCallVars>>

\* any other response: return the body, or throw the HTTP error
CallRespond(c) ==
    /\ calls[c].pc = "fetch"
    /\ \E status \in CallStatuses :
          /\ status = 401 => calls[c].tokenRefreshed
          /\ calls' = [calls EXCEPT ![c] =
                          IF status = 200 THEN [@ EXCEPT !.pc = "returned"]
                          ELSE CallCatch(@, "Error", status)]
    /\ UNCHANGED <<stored, notCallVars>>

\* A tokenRefreshed declared outside call: one flag for every invocation.
CallRefreshOkShared(c) ==
    /\ calls[c].pc = "refresh"
    /\ calls' = [d \in CallIds |->
                    IF d = c
                    THEN [calls[d] EXCEPT !.tokenRefreshed = TRUE,
                                          !.renewals = @ + 1,
                                          !.i = @ + 1,
                                          !.pc = "loop"]
                    ELSE [calls[d] EXCEPT !.tokenRefreshed = TRUE]]
    /\ stored' = "new"
    /\ UNCHANGED notCallVars

\* refreshed is true: tokenRefreshed = true; continue
CallRefreshOk(c) ==
    /\ calls[c].pc = "refresh"
    /\ calls' = [calls EXCEPT ![c] = [@ EXCEPT !.tokenRefreshed = TRUE,
                                               !.renewals = @ + 1,
                                               !.i = @ + 1,
                                               !.pc = "loop"]]
    /\ stored' = "new"
    /\ UNCHANGED notCallVars

\* refreshed is false: the session error, caught by the same iteration
CallRefreshFailed(c) ==
    /\ calls[c].pc = "refresh"
    /\ calls' = [calls EXCEPT ![c] = CallCatch(@, "Error", 0)]
    /\ stored' = "none"
    /\ UNCHANGED notCallVars

\* the backoff timer fires
CallBackoffDone(c) ==
    /\ calls[c].pc = "backoff"
    /\ calls' = [calls EXCEPT ![c] = [@ EXCEPT !.i = @ + 1, !.pc = "loop"]]
    /\ UNCHANGED <<stored, notCallVars>>

\* a step of the invocation c
CallStep(c) ==
    \/ CallAttempt(c)
    \/ CallExhausted(c)
    \/ CallTimeout(c)
    \/ CallFetchFailed(c)
    \/ CallUnauthorized(c)
    \/ CallRespond(c)
    \/ CallRefreshOk(c)
    \/ CallRefreshFailed(c)
    \/ CallBackoffDone(c)

CallsNext == \E c \in CallIds : CallStep(c)

CallsInit ==
    /\ calls \in [CallIds -> {[pc |-> "loop", retries |-> n, i |-> 0,
                               attemptCount |-> 0, tokenRefreshed |-> FALSE,
                               lastError |-> "null", fetches |-> 0,
                               renewals |-> 0] : n \in 0..MaxCallRetries}]
    /\ stored = "old"

InitCalls == CallsInit /\ ApiIdle /\ ConvIdle /\ FmtIdle /\ RndIdle /\ AhIdle /\ EdIdle

SpecCalls == InitCalls /\ [][CallsNext]_vars

\* C22: with two invocations in flight, under every interleaving, no step
\* of one invocation changes the attempt counter or the refresh-used flag
\* of the other: the counter of an invocation is the number of requests it
\* issued itself and its flag is set exactly when a refresh succeeded for
\* itself, whatever the other invocation refreshed.
C22_CallsIsolated ==
    /\ [][\A c \in CallIds : \A d \in CallIds \ {c} :
              CallStep(d)
              => /\ calls'[c].attemptCount = calls[c].attemptCount
                 /\ calls'[c].tokenRefreshed = calls[c].tokenRefreshed]_vars
    /\ [](\A c \in CallIds :
              /\ calls[c].attemptCount = calls[c].fetches
              /\ calls[c].tokenRefreshed <=> calls[c].renewals > 0)

\* C22 witness: invocation 1 has refreshed and sent its second request, and
\* invocation 2, answered 401, performs its own refresh.
C22_Witness ==
    /\ calls[1].tokenRefreshed /\ calls[1].attemptCount = 2
    /\ calls[1].pc = "fetch"
    /\ ~calls[2].tokenRefreshed /\ calls[2].attemptCount = 1
    /\ calls[2].pc = "refresh"
    /\ stored = "new"

(***************************************************************************)
(*          PART 6: AuthHelper.apiFetch of static/js/auth-helper.js        *)
(*                                                                         *)
(* A stored item is "none" when localStorage has no such key.  A request   *)
(* is recorded by the Authorization header it carries.                     *)
(***************************************************************************)
\* the statuses a request of apiFetch is answered with
AhStatuses == {200, 401, 403, 500}

\* data.access of the refresh response; "undefined" when the body has none
AhAccessValues == {"new", "undefined"}

\* `Bearer ${token}`
Bearer(tok) == <<"Bearer", tok>>

\* clearTokens()
clearTokens ==
    /\ ahAccess' = "none"
    /\ ahRefresh' = "none"
    /\ ahUsername' = "none"

\* window.location.href = '/login.html'; return null
AhGiveUp ==
    /\ ahLocation' = "/login.html"
    /\ ahResult' = AhNull
    /\ ahpc' = "done"

\* const token = getAccessToken(), the Authorization header, and the first
\* fetch(url, options)
AhSend ==
    /\ ahpc = "start"
    /\ ahToken' = ahAccess
    /\ LET header == IF ahAccess # "none" THEN Bearer(ahAccess) ELSE ahHeader
       IN  /\ ahHeader' = header
           /\ ahSent' = Append(ahSent, header)
    /\ ahpc' = "fetch1"
    /\ UNCHANGED <<ahAccess, ahRefresh, ahUsername, ahRefreshCalls, ahLocation,
                   ahResult, notAhVars>>

\* a fetch(url, options) rejects, and apiFetch with it
AhFetchThrows ==
    /\ ahpc \in {"fetch1", "fetch2"}
    /\ ahResult' = AhThrew
    /\ ahpc' = "done"
    /\ UNCHANGED <<ahAccess, ahRefresh, ahUsername, ahHeader, ahToken, ahSent,
                   ahRefreshCalls, ahLocation, notAhVars>>

\* the first response: 401 with a token calls refreshAccessToken(), any
\* other is returned
AhRespond ==
    /\ ahpc = "fetch1"
    /\ \E status \in AhStatuses :
          IF status = 401 /\ ahToken # "none"
          THEN /\ ahRefreshCalls' = ahRefreshCalls + 1
               /\ ahpc' = "refresh"
               /\ UNCHANGED ahResult
          ELSE /\ ahResult' = AhResponse(status, Len(ahSent))
               /\ ahpc' = "done"
               /\ UNCHANGED ahRefreshCalls
    /\ UNCHANGED <<ahAccess, ahRefresh, ahUsername, ahHeader, ahToken, ahSent,
                   ahLocation, notAhVars>>

\* refreshAccessToken without a refresh token: return false
AhNoRefreshToken ==
    /\ ahpc = "refresh"
    /\ ahRefresh = "none"
    /\ AhGiveUp
    /\ UNCHANGED <<ahAccess, ahRefresh, ahUsername, ahHeader, ahToken, ahSent,
                   ahRefreshCalls, notAhVars>>

\* refreshAccessToken posts the refresh token
AhRefreshPost ==
    /\ ahpc = "refresh"
    /\ ahRefresh # "none"
    /\ ahpc' = "refreshing"
    /\ UNCHANGED <<ahAccess, ahRefresh, ahUsername, ahHeader, ahToken, ahSent,
                   ahRefreshCalls, ahLocation, ahResult, notAhVars>>

\* response.ok: the access token is stored, and apiFetch sends the request
\* again with it
AhRefreshOk ==
    /\ ahpc = "refreshing"
    /\ \E access \in AhAccessValues :
          /\ ahAccess' = access
          /\ ahHeader' = Bearer(access)
          /\ ahSent' = Append(ahSent, Bearer(access))
    /\ ahpc' = "fetch2"
    /\ UNCHANGED <<ahRefresh, ahUsername, ahToken, ahRefreshCalls, ahLocation,
                   ahResult, notAhVars>>

\* the refresh is refused, its fetch rejects or its body is no JSON:
\* clearTokens(), return false
AhRefreshRefused ==
    /\ ahpc = "refreshing"
    /\ clearTokens
    /\ AhGiveUp
    /\ UNCHANGED <<ahHeader, ahToken, ahSent, ahRefreshCalls, notAhVars>>

\* the second response is returned
AhRespondAgain ==
    /\ ahpc = "fetch2"
    /\ \E status \in AhStatuses :
          ahResult' = AhResponse(status, Len(ahSent))
    /\ ahpc' = "done"
    /\ UNCHANGED <<ahAccess, ahRefresh, ahUsername, ahHeader, ahToken, ahSent,
                   ahRefreshCalls, ahLocation, notAhVars>>

AhNext ==
    \/ AhSend
    \/ AhFetchThrows
    \/ AhRespond
    \/ AhNoRefreshToken
    \/ AhRefreshPost
    \/ AhRefreshOk
    \/ AhRefreshRefused
    \/ AhRespondAgain

AhInit ==
    /\ ahAccess \in {"none", "old"}
    /\ ahRefresh \in {"none", "refresh"}
    /\ ahUsername \in {"none", "user"}
    /\ ahHeader \in {<<>>, <<"Basic", "custom">>}
    /\ ahToken = "none"
    /\ ahSent = <<>>
    /\ ahRefreshCalls = 0
    /\ ahLocation = "page"
    /\ ahResult = AhPending
    /\ ahpc = "start"

InitAh == AhInit /\ ApiIdle /\ ConvIdle /\ FmtIdle /\ RndIdle /\ CallsIdle /\ EdIdle

SpecAh == InitAh /\ [][AhNext]_vars

\* the first request was answered 401 while a token was stored: a refresh
\* was made, and it failed
AhRefreshFailed == ahRefreshCalls = 1 /\ ahResult = AhNull

\* C29 (as claimed): an invocation of apiFetch issues at most two requests
\* and makes at most one refresh.  A 401 without a stored token is returned
\* with no refresh.  When the refresh succeeds the request is sent once
\* more, with the new token, and that response is returned (a 401
\* included).  When the refresh fails no second request is sent, the stored
\* tokens are cleared and null is returned.
C29_OneRefreshTwoRequests ==
    /\ Len(ahSent) <= 2
    /\ ahRefreshCalls <= 1
    /\ ahpc = "done"
       => /\ (ahRefreshCalls = 0 /\ ahResult # AhThrew)
             => /\ Len(ahSent) = 1
                /\ ahResult.kind = "response" /\ ahResult.request = 1
                /\ ahResult.status = 401 => ahToken = "none"
          /\ Len(ahSent) = 2
             => /\ ahRefreshCalls = 1
                /\ ahSent[2] = Bearer(ahAccess)
                /\ ahAccess \in AhAccessValues
                /\ ahResult # AhThrew
                   => ahResult.kind = "response" /\ ahResult.request = 2
          /\ AhRefreshFailed
             => /\ Len(ahSent) = 1
                /\ ahAccess = "none" /\ ahRefresh = "none" /\ ahUsername = "none"

(***************************************************************************)
(*          PART 7: the Editor registry of static/js/dashboard.js          *)
(*                                                                         *)
(* An instance is what the registry's callers read of a Quill object: its  *)
(* root.innerHTML and the inserts of getContents().  containers changes as *)
(* the page adds and removes the elements the editors are attached to.     *)
(***************************************************************************)
\* the content given to init and setContent
EditorContents == {"", " ", "<p>x</p>", "<p>y</p>"}

\* content && content.trim()
NonBlank(text) == text \notin {"", " "}

\* the document of a new or cleared editor
EmptyHtml == "<p><br></p>"
EmptyOps == <<"\n">>

\* a Quill instance after quill.root.innerHTML = text
WithContent(text) == [html |-> text, ops |-> <<text, "\n">>]

\* new Quill(...), with the initial content if it is not blank
NewQuill(text) ==
    IF NonBlank(text) THEN WithContent(text)
    ELSE [html |-> EmptyHtml, ops |-> EmptyOps]

\* quillInstances.has(id), quillInstances.size
Has(registry, id) == registry[id] # NoInstance
Size(registry) == Cardinality({id \in EditorIds : Has(registry, id)})

\* destroy(containerId) on a registry
Destroyed(registry, id) ==
    IF Has(registry, id) THEN [registry EXCEPT ![id] = NoInstance] ELSE registry

\* getContent(containerId)
getContent(registry, id) ==
    IF ~Has(registry, id) THEN "" ELSE registry[id].html

\* hasContent(containerId): some insert is neither '\n' nor ''
hasContent(registry, id) ==
    IF ~Has(registry, id) THEN FALSE
    ELSE \E k \in 1..Len(registry[id].ops) : registry[id].ops[k] \notin {"\n", ""}

\* init(containerId, content); constructs tells whether the try block ends
\* without a throw
EdInitCall(id, text, constructs) ==
    LET cleared == Destroyed(quillInstances, id)
        found == id \in containers
    IN  /\ quillInstances' =
              IF found /\ constructs
              THEN [cleared EXCEPT ![id] = NewQuill(text)]
              ELSE cleared
        /\ modulesRegistered' = (modulesRegistered \/ (found /\ Size(cleared) = 0))
        /\ edCall' = [op |-> "init", id |-> id,
                      result |-> IF found /\ constructs THEN "quill" ELSE "null"]

EdInit ==
    /\ \E id \in EditorIds, text \in EditorContents, constructs \in BOOLEAN :
          EdInitCall(id, text, constructs)
    /\ edBefore' = quillInstances
    /\ UNCHANGED <<containers, notEdVars>>

\* setContent(containerId, content)
EdSetContent ==
    /\ \E id \in EditorIds, text \in EditorContents :
          /\ quillInstances' =
                 IF Has(quillInstances, id) /\ NonBlank(text)
                 THEN [quillInstances EXCEPT ![id] = WithContent(text)]
                 ELSE quillInstances
          /\ edCall' = [op |-> "setContent", id |-> id, result |-> "undefined"]
    /\ edBefore' = quillInstances
    /\ UNCHANGED <<containers, modulesRegistered, notEdVars>>

\* clear(containerId)
EdClear ==
    /\ \E id \in EditorIds :
          /\ quillInstances' =
                 IF Has(quillInstances, id)
                 THEN [quillInstances EXCEPT ![id] =
                          [html |-> EmptyHtml, ops |-> EmptyOps]]
                 ELSE quillInstances
          /\ edCall' = [op |-> "clear", id |-> id, result |-> "undefined"]
    /\ edBefore' = quillInstances
    /\ UNCHANGED <<containers, modulesRegistered, notEdVars>>

\* destroy(containerId)
EdDestroy ==
    /\ \E id \in EditorIds :
          /\ quillInstances' = Destroyed(quillInstances, id)
          /\ edCall' = [op |-> "destroy", id |-> id, result |-> "undefined"]
    /\ edBefore' = quillInstances
    /\ UNCHANGED <<containers, modulesRegistered, notEdVars>>

\* the page renders, or removes, the element of an editor
EdPageChanges ==
    /\ \E id \in EditorIds :
          containers' = IF id \in containers THEN containers \ {id}
                        ELSE containers \cup {id}
    /\ UNCHANGED <<quillInstances, modulesRegistered, edCall, edBefore,
                   notEdVars>>

EdNext ==
    \/ EdInit
    \/ EdSetContent
    \/ EdClear
    \/ EdDestroy
    \/ EdPageChanges

EdInitial ==
    /\ quillInstances = [id \in EditorIds |-> NoInstance]
    /\ containers \in SUBSET EditorIds
    /\ modulesRegistered = FALSE
    /\ edCall = NoCall
    /\ edBefore = quillInstances

InitEd == EdInitial /\ ApiIdle /\ ConvIdle /\ FmtIdle /\ RndIdle /\ CallsIdle /\ AhIdle

SpecEd == InitEd /\ [][EdNext]_vars

\* C30 (as claimed): an init call that fails (the container is not found,
\* or the construction throws) returns null and leaves the registry as it
\* found it: an instance registered under that id before the call is still
\* registered, and getContent and hasContent answer for that id as before.
C30_FailedInitKeepsRegistry ==
    (edCall.op = "init" /\ edCall.result = "null")
    => /\ quillInstances = edBefore
       /\ getContent(quillInstances, edCall.id) = getContent(edBefore, edCall.id)
       /\ hasContent(quillInstances, edCall.id) = hasContent(edBefore, edCall.id)

====
